---- MODULE Spec2Model ----
(***************************************************************************)
(* A model of the DRM core of asterinas-drm: the mode-setting registry     *)
(* (DrmModeConfig), GEM buffer objects, per-open-file handle tables        *)
(* (DrmFile) and the ioctl dispatcher of kernel/src/device/drm/file.rs.    *)
(***************************************************************************)
EXTENDS Integers, Sequences, FiniteSets, TLC

(***************************************************************************)
(* Bounds of the model.                                                    *)
(***************************************************************************)
NumSessions == 2       \* open files (DrmFile) that may exist
MaxObjects  == 6       \* cap on next_object_id in the ioctl specification
MaxGems     == 2       \* cap on the number of GEM objects ever created
MaxOffsets  == 2       \* cap on the number of mmap offsets ever created
MaxRegObjs  == 5       \* cap on next_object_id in the registry specification
MaxProps    == 3       \* cap on next_prop_id in the registry specification
NumThreads  == 3       \* concurrent creation calls (K)

Sessions == 1..NumSessions
Threads  == 1..NumThreads

(***************************************************************************)
(* DrmDriverFeatures (driver/mod.rs).  A feature set is a set of names.    *)
(***************************************************************************)
MODESET        == "MODESET"
ATOMIC         == "ATOMIC"
CURSOR_HOTSPOT == "CURSOR_HOTSPOT"
SYNCOBJ        == "SYNCOBJ"
FeatureSets    == { {}, {MODESET}, {ATOMIC}, {MODESET, ATOMIC},
                    {MODESET, ATOMIC, CURSOR_HOTSPOT}, {MODESET, SYNCOBJ} }

(***************************************************************************)
(* Errno values returned by the handlers; OK stands for Ok(0).             *)
(***************************************************************************)
OK         == "OK"
EOPNOTSUPP == "EOPNOTSUPP"   \* Unsupported
ENOENT     == "ENOENT"       \* NotFound
EINVAL     == "EINVAL"       \* InvalidArgument
ENOSYS     == "ENOSYS"       \* Unimplemented
EFAULT     == "EFAULT"       \* AddressFault
ENXIO      == "ENXIO"        \* NotSupportedHardware
ENOMEM     == "ENOMEM"       \* failure of the backing-store allocation

VARIABLES
    \* ---- DrmDevice / driver
    driver_features,    \* DrmDevice.driver_features
    dumb_create,        \* driver_ops().dumb_create.is_some()
    bringup,            \* position of the driver's create_device
    scanout,            \* FRAMEBUFFER.get().is_some(): a legacy scanout surface exists
    minors,             \* the DrmMinors handed to char::register
    \* ---- DrmModeConfig
    planes, crtcs, encoders, connectors, framebuffers, objects, properties,
    next_object_id, next_prop_id, crtc_index, encoder_index,
    \* ---- GEM objects and the device offset table
    gems,               \* every DrmGemObject ever created (heap)
    offsets,            \* device offset table: offset -> gem
    next_offset,
    \* ---- DrmFile, one per session
    opened,             \* the sessions that exist
    next_handle, gem_table,
    caps,               \* the six client-cap flags
    \* ---- the last completed call and the histories the properties read
    ret,                \* result of the last ioctl
    issued,             \* object ids in the order next_object_id returned them
    issued_props,       \* property ids in the order next_prop_id returned them
    created,            \* per session: number of CreateDumb calls that returned Ok
    destroyed,          \* per session: handles removed by successful DestroyDumb
    \* ---- concurrent creation calls
    pc, got, lock

regVars  == <<planes, crtcs, encoders, connectors, framebuffers, objects, properties,
              next_object_id, next_prop_id, crtc_index, encoder_index>>
devVars  == <<driver_features, dumb_create, bringup, scanout, minors>>
gemVars  == <<gems, offsets, next_offset>>
fileVars == <<opened, next_handle, gem_table, caps>>
histVars == <<issued, issued_props, created, destroyed>>
concVars == <<pc, got, lock>>
vars     == <<regVars, devVars, gemVars, fileVars, histVars, concVars, ret>>

Empty == << >>     \* an empty HashMap

\* HashMap::insert: a later value replaces an earlier one under the same key
insert(map, k, v) == (k :> v) @@ map
\* HashMap::remove
remove(map, k) == [i \in DOMAIN map \ {k} |-> map[i]]

(***************************************************************************)
(* DrmModeConfig: identifier allocation.                                   *)
(***************************************************************************)
\* a faulty variant: the counter is read but not advanced
fetch_add_lost(c) == c

\* AtomicU32::fetch_add(1): the value stored back
fetch_add(c) == c + 1

\* AtomicU8::fetch_add(1) of crtc_index and encoder_index: wraps at 2^8
fetch_add_u8(c) == (c + 1) % 256

\* next_object_id(): returns the old value and stores fetch_add of it
NextObjectId(id) ==
    /\ id = next_object_id
    /\ next_object_id' = fetch_add(next_object_id)
    /\ issued' = Append(issued, id)

NextPropId(id) ==
    /\ id = next_prop_id
    /\ next_prop_id' = fetch_add(next_prop_id)
    /\ issued_props' = Append(issued_props, id)

(***************************************************************************)
(* DrmModeConfig: the object constructors.  Each leaves the tables of the  *)
(* other kinds alone.                                                      *)
(***************************************************************************)
PlaneTypes == {"Overlay", "Primary", "Cursor"}

\* an entry of the unified object table: the object itself, whose property
\* map every constructor creates empty
Object(kind) == [kind |-> kind, properties |-> Empty]

DrmPlane_init(type_) ==
    \E id \in {next_object_id} :
        /\ NextObjectId(id)
        /\ planes' = insert(planes, id, [type_ |-> type_, fb_id |-> 0, properties |-> Empty])
        /\ objects' = insert(objects, id, Object("plane"))
        /\ UNCHANGED <<crtcs, encoders, connectors, framebuffers, properties,
                       next_prop_id, crtc_index, encoder_index, issued_props>>

DrmCrtc_init_with_planes(primary_plane) ==
    \E id \in {next_object_id} :
        /\ NextObjectId(id)
        /\ crtcs' = insert(crtcs, id, [index |-> crtc_index,
                                         primary_plane |-> primary_plane,
                                         gamma_size |-> 0, x |-> 0, y |-> 0,
                                         properties |-> Empty])
        /\ crtc_index' = fetch_add_u8(crtc_index)
        /\ objects' = insert(objects, id, Object("crtc"))
        /\ UNCHANGED <<planes, encoders, connectors, framebuffers, properties,
                       next_prop_id, encoder_index, issued_props>>

\* possible_crtcs |= 1 << c.index(): a mask is the set of its bit positions
DrmEncoder_init_with_crtcs(cs) ==
    \E id \in {next_object_id} :
        /\ NextObjectId(id)
        /\ encoders' = insert(encoders, id,
                           [index |-> encoder_index,
                            possible_crtcs |-> {crtcs[c].index : c \in cs},
                            possible_clones |-> {}, properties |-> Empty])
        /\ encoder_index' = fetch_add_u8(encoder_index)
        /\ objects' = insert(objects, id, Object("encoder"))
        /\ UNCHANGED <<planes, crtcs, connectors, framebuffers, properties,
                       next_prop_id, crtc_index, issued_props>>

DrmConnector_init_with_encoder(modes, es) ==
    \E id \in {next_object_id} :
        /\ NextObjectId(id)
        /\ connectors' = insert(connectors, id,
               [modes |-> modes,
                possible_encoders_id |-> es,
                possible_encoders_mask |-> {encoders[e].index : e \in es},
                properties |-> Empty])
        /\ objects' = insert(objects, id, Object("connector"))
        /\ UNCHANGED <<planes, crtcs, encoders, framebuffers, properties,
                       next_prop_id, crtc_index, encoder_index, issued_props>>

create_framebuffer(id, width, height, pitch, bpp, gem_obj) ==
    /\ NextObjectId(id)
    /\ framebuffers' = insert(framebuffers, id,
           [width |-> width, height |-> height, pitch |-> pitch,
            bpp |-> bpp, gem_obj |-> gem_obj, properties |-> Empty])
    /\ objects' = insert(objects, id, Object("fb"))
    /\ UNCHANGED <<planes, crtcs, encoders, connectors, properties,
                   next_prop_id, crtc_index, encoder_index, issued_props>>

\* HashMap::remove on the framebuffer table only
remove_framebuffer(fb_id) ==
    /\ framebuffers' = remove(framebuffers, fb_id)
    /\ UNCHANGED <<planes, crtcs, encoders, connectors, objects, properties,
                   next_object_id, next_prop_id, crtc_index, encoder_index,
                   issued, issued_props>>

(***************************************************************************)
(* GEM objects.  dumb_create_impl (gem/memfd.rs, memfd.rs) computes the    *)
(* geometry of a dumb buffer in u32 arithmetic; the inputs below stay far  *)
(* from 2^32, so no product wraps.                                         *)
(***************************************************************************)
dumb_pitch(width, bpp)          == width * (bpp \div 8)
dumb_size(width, height, bpp)   == dumb_pitch(width, bpp) * height

\* DrmGemObject::new(size, pitch, backend) with a fresh backend
DrmGemObject_new(size, pitch) ==
    [size |-> size, pitch |-> pitch, release_calls |-> 0, released |-> FALSE]

dumb_create_impl(width, height, bpp) ==
    DrmGemObject_new(dumb_size(width, height, bpp), dumb_pitch(width, bpp))

\* ---- faulty variants, which the properties below must tell from the code
\* remove_gem that leaves the entry in the table
remove_gem_keeps(s, h) == gem_table
\* DestroyDumb answering NotFound for an unknown handle
destroy_missing_errno_notfound == ENOENT
\* release that reaches the backend twice
gem_release_twice(g, ok) ==
    [gems EXCEPT ![g].release_calls = @ + 2,
                 ![g].released = @ \/ ok]

\* DrmGemObject::release -> backend.release(); ok says whether the backend
\* reported success
gem_release(g, ok) ==
    [gems EXCEPT ![g].release_calls = @ + 1,
                 ![g].released = @ \/ ok]

\* The requests CreateDumb is tried with
Dims == { [width |-> 1280, height |-> 800, bpp |-> 32] }
\* The geometry AddFB is tried with
FbDims == { [width |-> 1280, height |-> 800, pitch |-> 5120, bpp |-> 32] }
\* Handles a request may name: every handle that can be issued, and one more
Handles == 1..(MaxGems + 1)
EBACKEND == "EBACKEND"     \* whatever errno the backend's release reports

(***************************************************************************)
(* The device offset table (DrmMinor::create_offset / lookup_offset /      *)
(* remove_offset).                                                         *)
(***************************************************************************)
create_offset(g) ==
    /\ offsets' = insert(offsets, next_offset, g)
    /\ next_offset' = next_offset + 1

lookup_offset(off) == IF off \in DOMAIN offsets THEN {offsets[off]} ELSE {}

remove_offset(g) ==
    [o \in {x \in DOMAIN offsets : offsets[x] # g} |-> offsets[o]]

(***************************************************************************)
(* DrmFile: the handle table.                                              *)
(***************************************************************************)
NoCaps == [stereo_allowed |-> FALSE, universal_planes |-> FALSE,
           atomic |-> FALSE, aspect_ratio_allowed |-> FALSE,
           writeback_connectors |-> FALSE,
           supports_virtualized_cursor_plane |-> FALSE]

\* a faulty variant: one handle table for the whole device
lookup_gem_device_wide(s, h) ==
    IF \E t \in Sessions : h \in DOMAIN gem_table[t]
    THEN {gem_table[CHOOSE t \in Sessions : h \in DOMAIN gem_table[t]][h]}
    ELSE {}

lookup_gem(s, h) == IF h \in DOMAIN gem_table[s] THEN {gem_table[s][h]} ELSE {}

insert_gem(s, h, g) == [gem_table EXCEPT ![s] = insert(@, h, g)]

remove_gem(s, h) ==
    [gem_table EXCEPT ![s] = remove(@, h)]

check_feature(f) == f \in driver_features

Ret(op, s, arg, errno, out) ==
    [op |-> op, s |-> s, arg |-> arg, errno |-> errno, out |-> out]

\* A handler that returns errno (or Ok) after changing nothing
Return(op, s, arg, errno) ==
    /\ ret' = Ret(op, s, arg, errno, Empty)
    /\ UNCHANGED <<regVars, devVars, gemVars, fileVars, histVars, concVars>>

\* return_errno!(errno)
Fail(op, s, arg, errno) == Return(op, s, arg, errno)

(***************************************************************************)
(* Device bring-up: SimpleDrmDevice::init followed by drm_dev_register.    *)
(* Until the minors are registered no file can be opened.                  *)
(***************************************************************************)
Registered == bringup = "registered"

RENDER        == "RENDER"
COMPUTE_ACCEL == "COMPUTE_ACCEL"
DrmMinorType  == {"Primary", "Control", "Render", "Accel"}

\* DrmMinor::new: the minor copies the index of its device
DrmMinor_new(device_index, type_) == [index |-> device_index, type_ |-> type_]

Bringup(from, to) ==
    /\ bringup = from
    /\ bringup' = to
    /\ UNCHANGED <<driver_features, dumb_create, scanout, gemVars, fileVars,
                   created, destroyed, concVars, ret>>

\* a no-op placeholder in the source
init_standard_properties ==
    /\ Bringup("new", "props")
    /\ UNCHANGED <<regVars, issued, issued_props, minors>>

InitPlane ==
    /\ Bringup("props", "plane") /\ DrmPlane_init("Primary")
    /\ UNCHANGED minors

InitCrtc ==
    /\ Bringup("plane", "crtc")
    /\ \E p \in DOMAIN planes : DrmCrtc_init_with_planes(p)
    /\ UNCHANGED minors

InitEncoder ==
    /\ Bringup("crtc", "encoder")
    /\ DrmEncoder_init_with_crtcs(DOMAIN crtcs)
    /\ UNCHANGED minors

InitConnector ==
    /\ Bringup("encoder", "connector")
    /\ DrmConnector_init_with_encoder({"1280x800"}, DOMAIN encoders)
    /\ UNCHANGED minors

\* a faulty variant: the render minor is created for every device
MinorTypesOf_render_always(features) ==
    IF COMPUTE_ACCEL \in features THEN <<"Accel">> ELSE <<"Render", "Primary">>

\* the minors drm_dev_register creates for a device, in the order of its
\* char::register calls
MinorTypesOf(features) ==
    IF COMPUTE_ACCEL \in features THEN <<"Accel">>
    ELSE IF RENDER \in features THEN <<"Render", "Primary">>
    ELSE <<"Primary">>

\* drm_dev_register with its first n calls of char::register succeeding.
\* The device of the model has index 0.
drm_dev_register_upto(n, to) ==
    /\ Bringup("connector", to)
    /\ minors' = {DrmMinor_new(0, MinorTypesOf(driver_features)[i]) : i \in 1..n}
    /\ UNCHANGED <<regVars, issued, issued_props>>

\* every char::register succeeds
drm_dev_register ==
    drm_dev_register_upto(Len(MinorTypesOf(driver_features)), "registered")

\* DrmMinor::open -> DrmFile::new, through a minor that char::register took
Open(s) ==
    /\ minors # {}
    /\ s \notin opened
    /\ opened' = opened \cup {s}
    /\ next_handle' = [next_handle EXCEPT ![s] = 1]
    /\ gem_table' = [gem_table EXCEPT ![s] = Empty]
    /\ caps' = [caps EXCEPT ![s] = NoCaps]
    /\ UNCHANGED <<regVars, devVars, gemVars, histVars, concVars, ret>>

(***************************************************************************)
(* Capabilities.  GetCap answers a DrmCapabilities value, SetClientCap     *)
(* stores the session's ClientCaps flags.  A capability id that            *)
(* try_from does not know is "Unknown".                                    *)
(***************************************************************************)
DrmCapabilities ==
    {"DumbBuffer", "VblankHighCrtc", "DumbPreferredDepth", "DumbPreferShadow",
     "Prime", "TimestampMonotonic", "AsyncPageFlip", "CursorWidth",
     "CursorHeight", "Addfb2Modifiers", "PageFlipTarget", "CrtcInVblankEvent",
     "SyncObj", "SyncObjTimeline", "AtomicAsyncPageFlip"}
\* a faulty variant: Prime has moved behind the MODESET check
UngatedCapabilities_less == {"TimestampMonotonic", "SyncObj", "SyncObjTimeline"}
\* the capabilities GetCap answers before it looks at MODESET
UngatedCapabilities == {"TimestampMonotonic", "Prime", "SyncObj", "SyncObjTimeline"}

ClientCaps ==
    {"Stereo3D", "UniversalPlane", "Atomic", "AspectRatio",
     "WritebackConnectors", "CursorPlaneHostport"}
ClientCapValues == 0..3

\* DrmModeConfig::default(): the scalar fields GetCap reads
preferred_depth            == 16
prefer_shadow              == 0
cursor_width               == 32
cursor_height              == 32
fb_modifiers_not_supported == TRUE
async_page_flip            == FALSE
\* DrmPrimeValue::IMPORT | DrmPrimeValue::EXPORT
PRIME_IMPORT_EXPORT        == 3

bool_as_u64(b) == IF b THEN 1 ELSE 0

\* a faulty variant: Addfb2Modifiers reports the flag itself, not its negation
GetCapValue_flag_not_negated(cap) ==
    CASE cap = "TimestampMonotonic"  -> 1
      [] cap = "Prime"               -> PRIME_IMPORT_EXPORT
      [] cap = "SyncObj"             -> bool_as_u64(check_feature(SYNCOBJ))
      [] cap = "SyncObjTimeline"     -> bool_as_u64(check_feature("SYNCOBJ_TIMELINE"))
      [] cap = "DumbBuffer"          -> bool_as_u64(dumb_create)
      [] cap = "VblankHighCrtc"      -> 1
      [] cap = "DumbPreferredDepth"  -> preferred_depth
      [] cap = "DumbPreferShadow"    -> prefer_shadow
      [] cap = "AsyncPageFlip"       -> bool_as_u64(async_page_flip)
      [] cap = "PageFlipTarget"      -> 0
      [] cap = "CursorWidth"         -> IF cursor_width = 0 THEN 64 ELSE cursor_width
      [] cap = "CursorHeight"        -> IF cursor_height = 0 THEN 64 ELSE cursor_height
      [] cap = "Addfb2Modifiers"     -> bool_as_u64(fb_modifiers_not_supported)
      [] cap = "CrtcInVblankEvent"   -> 1
      [] cap = "AtomicAsyncPageFlip" -> bool_as_u64(check_feature(ATOMIC) /\ async_page_flip)

GetCapValue(cap) ==
    CASE cap = "TimestampMonotonic"  -> 1
      [] cap = "Prime"               -> PRIME_IMPORT_EXPORT
      [] cap = "SyncObj"             -> bool_as_u64(check_feature(SYNCOBJ))
      [] cap = "SyncObjTimeline"     -> bool_as_u64(check_feature("SYNCOBJ_TIMELINE"))
      [] cap = "DumbBuffer"          -> bool_as_u64(dumb_create)
      [] cap = "VblankHighCrtc"      -> 1
      [] cap = "DumbPreferredDepth"  -> preferred_depth
      [] cap = "DumbPreferShadow"    -> prefer_shadow
      [] cap = "AsyncPageFlip"       -> bool_as_u64(async_page_flip)
      [] cap = "PageFlipTarget"      -> 0
      [] cap = "CursorWidth"         -> IF cursor_width = 0 THEN 64 ELSE cursor_width
      [] cap = "CursorHeight"        -> IF cursor_height = 0 THEN 64 ELSE cursor_height
      [] cap = "Addfb2Modifiers"     -> bool_as_u64(~fb_modifiers_not_supported)
      [] cap = "CrtcInVblankEvent"   -> 1
      [] cap = "AtomicAsyncPageFlip" -> bool_as_u64(check_feature(ATOMIC) /\ async_page_flip)

DrmIoctlGetCap(s, cap, write_ok) ==
    /\ s \in opened
    /\ IF cap \notin DrmCapabilities THEN Fail("GetCap", s, cap, EINVAL)
       ELSE IF cap \notin UngatedCapabilities /\ ~check_feature(MODESET)
            THEN Fail("GetCap", s, cap, EOPNOTSUPP)
       ELSE IF ~write_ok THEN Fail("GetCap", s, cap, EFAULT)
       ELSE /\ ret' = Ret("GetCap", s, cap, OK, [value |-> GetCapValue(cap)])
            /\ UNCHANGED <<regVars, devVars, gemVars, fileVars, histVars, concVars>>

\* a faulty variant: an Atomic arm that leaves universal_planes alone
store_atomic_only(f, v) ==
    [f EXCEPT !.atomic = (v >= 1),
              !.aspect_ratio_allowed = (v = 2)]

\* the stores of the ClientCaps::Atomic arm
store_atomic(f, v) ==
    [f EXCEPT !.atomic = (v >= 1),
              !.universal_planes = (v >= 1),
              !.aspect_ratio_allowed = (v = 2)]

\* the match on the capability: the errno and the flags it leaves
Stored(f)   == [errno |-> OK, flags |-> f]

\* a faulty variant: the error of a refused arm is swallowed
Refused_swallowed(e, f) == [errno |-> OK, flags |-> f]

Refused(e, f) == [errno |-> e, flags |-> f]

\* a faulty variant: the WritebackConnectors and CursorPlaneHostport arms
\* do not look at the session's atomic flag
SetClientCapResult_no_atomic_check(f, cap, v) ==
    CASE cap = "Stereo3D" ->
            IF v \in {0, 1} THEN Stored([f EXCEPT !.stereo_allowed = (v = 1)])
            ELSE Refused(EINVAL, f)
      [] cap = "UniversalPlane" ->
            IF v \in {0, 1} THEN Stored([f EXCEPT !.universal_planes = (v = 1)])
            ELSE Refused(EINVAL, f)
      [] cap = "Atomic" ->
            IF ~check_feature(ATOMIC) THEN Refused(EOPNOTSUPP, f)
            ELSE IF v \in {0, 1, 2} THEN Stored(store_atomic(f, v))
            ELSE Refused(EINVAL, f)
      [] cap = "AspectRatio" ->
            IF v \in {0, 1} THEN Stored([f EXCEPT !.aspect_ratio_allowed = (v = 1)])
            ELSE Refused(EINVAL, f)
      [] cap = "WritebackConnectors" ->
            IF v \in {0, 1}
            THEN Stored([f EXCEPT !.writeback_connectors = (v = 1)])
            ELSE Refused(EINVAL, f)
      [] cap = "CursorPlaneHostport" ->
            IF ~check_feature(CURSOR_HOTSPOT) THEN Refused(EOPNOTSUPP, f)
            ELSE IF v \in {0, 1}
                 THEN Stored([f EXCEPT !.supports_virtualized_cursor_plane = (v = 1)])
            ELSE Refused(EINVAL, f)

SetClientCapResult(f, cap, v) ==
    CASE cap = "Stereo3D" ->
            IF v \in {0, 1} THEN Stored([f EXCEPT !.stereo_allowed = (v = 1)])
            ELSE Refused(EINVAL, f)
      [] cap = "UniversalPlane" ->
            IF v \in {0, 1} THEN Stored([f EXCEPT !.universal_planes = (v = 1)])
            ELSE Refused(EINVAL, f)
      [] cap = "Atomic" ->
            IF ~check_feature(ATOMIC) THEN Refused(EOPNOTSUPP, f)
            ELSE IF v \in {0, 1, 2} THEN Stored(store_atomic(f, v))
            ELSE Refused(EINVAL, f)
      [] cap = "AspectRatio" ->
            IF v \in {0, 1} THEN Stored([f EXCEPT !.aspect_ratio_allowed = (v = 1)])
            ELSE Refused(EINVAL, f)
      [] cap = "WritebackConnectors" ->
            IF ~f.atomic THEN Refused(EINVAL, f)
            ELSE IF v \in {0, 1}
                 THEN Stored([f EXCEPT !.writeback_connectors = (v = 1)])
            ELSE Refused(EINVAL, f)
      [] cap = "CursorPlaneHostport" ->
            IF ~check_feature(CURSOR_HOTSPOT) THEN Refused(EOPNOTSUPP, f)
            ELSE IF ~f.atomic THEN Refused(EINVAL, f)
            ELSE IF v \in {0, 1}
                 THEN Stored([f EXCEPT !.supports_virtualized_cursor_plane = (v = 1)])
            ELSE Refused(EINVAL, f)

DrmIoctlSetClientCap(s, cap, v) ==
    /\ s \in opened
    /\ LET arg == [capability |-> cap, value |-> v] IN
       IF ~check_feature(MODESET) THEN Fail("SetClientCap", s, arg, EOPNOTSUPP)
       ELSE IF cap \notin ClientCaps THEN Fail("SetClientCap", s, arg, EINVAL)
       ELSE LET r == SetClientCapResult(caps[s], cap, v) IN
            IF r.errno # OK THEN Fail("SetClientCap", s, arg, r.errno)
            ELSE /\ caps' = [caps EXCEPT ![s] = r.flags]
                 /\ ret' = Ret("SetClientCap", s, arg, OK, Empty)
                 /\ UNCHANGED <<regVars, devVars, gemVars, opened, next_handle,
                                gem_table, histVars, concVars>>

(***************************************************************************)
(* The query ioctls.  What a call copies out is recorded in ret.out:       *)
(* fields is the request structure written back by cmd.write, writes is    *)
(* the log of the write_val calls, each <<address, value>>, in the order   *)
(* they were made.  write_ok = FALSE is a fault of the first copy to user  *)
(* memory the call attempts.                                               *)
(***************************************************************************)
SIZE_U32        == 4      \* core::mem::size_of::<u32>()
SIZE_U64        == 8      \* core::mem::size_of::<u64>()
SIZE_MODE_INFO  == 68     \* core::mem::size_of::<DrmModeModeInfo>()
SIZE_PROP_ENUM  == 40     \* core::mem::size_of::<PropertyEnum>()

Answer(op, s, arg, errno, fields, writes) ==
    /\ ret' = Ret(op, s, arg, errno, [fields |-> fields, writes |-> writes])
    /\ UNCHANGED <<regVars, devVars, gemVars, fileVars, histVars, concVars>>

\* cmd.write(&user_data)? followed by Ok(0)
WriteBack(op, s, arg, fields, write_ok) ==
    IF write_ok THEN Answer(op, s, arg, OK, fields, << >>)
    ELSE Answer(op, s, arg, EFAULT, Empty, << >>)

\* the orders in which a HashMap or HashSet may hand out the elements of S
Orders(S) ==
    {f \in [1..Cardinality(S) -> S] : \A i, j \in DOMAIN f : i # j => f[i] # f[j]}

\* for (i, x) in ord.enumerate(): write_val(ptr + i * size, x)
WriteArray(ptr, size, ord) ==
    [i \in 1..Len(ord) |-> <<ptr + (i - 1) * size, ord[i]>>]

\* for (i, (id, value)) in ...: write_val(props_ptr + i*4, id);
\*                              write_val(prop_values_ptr + i*8, value)
WritePairs(ptr1, size1, ptr2, size2, ord, map) ==
    [k \in 1..(2 * Len(ord)) |->
        LET i == (k + 1) \div 2 IN
        IF k % 2 = 1 THEN <<ptr1 + (i - 1) * size1, ord[i]>>
                     ELSE <<ptr2 + (i - 1) * size2, map[ord[i]]>>]

\* the arrays of a Fill in the order the handler reaches them; the handler
\* returns at the first one whose capacity check fails
RECURSIVE FillLog(_)
FillLog(stages) ==
    IF stages = << >> THEN [ok |-> TRUE, log |-> << >>]
    ELSE IF ~Head(stages).ok THEN [ok |-> FALSE, log |-> << >>]
    ELSE LET r == FillLog(Tail(stages))
         IN  [ok |-> r.ok, log |-> Head(stages).w \o r.log]

Stage(ok, w) == [ok |-> ok, w |-> w]

Fill(op, s, arg, stages, write_ok) ==
    LET r == FillLog(stages) IN
    IF r.log # << >> /\ ~write_ok THEN Answer(op, s, arg, EFAULT, Empty, << >>)
    ELSE Answer(op, s, arg, IF r.ok THEN OK ELSE EFAULT, Empty, r.log)

\* a faulty variant: the framebuffers counted in the object table, which
\* remove_framebuffer leaves alone
count_framebuffers_ever ==
    Cardinality({id \in DOMAIN objects : objects[id].kind = "fb"})

count_planes       == Cardinality(DOMAIN planes)
count_crtcs        == Cardinality(DOMAIN crtcs)
count_encoders     == Cardinality(DOMAIN encoders)
count_connectors   == Cardinality(DOMAIN connectors)
count_framebuffers == Cardinality(DOMAIN framebuffers)

DrmIoctlModeGetResources(s, req, write_ok) ==
    /\ s \in opened
    /\ IF ~check_feature(MODESET) THEN Fail("GetResources", s, req, EOPNOTSUPP)
       ELSE IF req.fb_id_ptr = 0 /\ req.crtc_id_ptr = 0
               /\ req.connector_id_ptr = 0 /\ req.encoder_id_ptr = 0
       THEN WriteBack("GetResources", s, req,
                      [count_crtcs |-> count_crtcs,
                       count_encoders |-> count_encoders,
                       count_connectors |-> count_connectors,
                       count_fbs |-> count_framebuffers], write_ok)
       ELSE \E oc \in Orders(DOMAIN connectors), ocr \in Orders(DOMAIN crtcs),
               oe \in Orders(DOMAIN encoders), ofb \in Orders(DOMAIN framebuffers) :
            Fill("GetResources", s, req,
                 << Stage(req.count_connectors >= count_connectors,
                          WriteArray(req.connector_id_ptr, SIZE_U32, oc)),
                    Stage(req.count_crtcs >= count_crtcs,
                          WriteArray(req.crtc_id_ptr, SIZE_U32, ocr)),
                    Stage(req.count_encoders >= count_encoders,
                          WriteArray(req.encoder_id_ptr, SIZE_U32, oe)),
                    Stage(req.count_fbs >= count_framebuffers,
                          WriteArray(req.encoder_id_ptr, SIZE_U32, ofb)) >>,
                 write_ok)

DrmIoctlModeGetCrtc(s, crtc_id, write_ok) ==
    /\ s \in opened
    /\ IF ~check_feature(MODESET) THEN Fail("GetCrtc", s, crtc_id, EOPNOTSUPP)
       ELSE IF crtc_id \notin DOMAIN crtcs THEN Fail("GetCrtc", s, crtc_id, ENOENT)
       ELSE WriteBack("GetCrtc", s, crtc_id,
                      [gamma_size |-> crtcs[crtc_id].gamma_size,
                       fb_id |-> planes[crtcs[crtc_id].primary_plane].fb_id,
                       x |-> crtcs[crtc_id].x, y |-> crtcs[crtc_id].y], write_ok)

\* SetCrtc and DirtyFb copy the framebuffer to the legacy scanout surface;
\* read_ok is the outcome of the read from the buffer's backend
\* a faulty variant: a successful copy also records the framebuffer on every
\* plane
CopyToScanout_sets_plane(op, s, fb_id, read_ok) ==
    /\ s \in opened
    /\ IF ~check_feature(MODESET) THEN Fail(op, s, fb_id, EOPNOTSUPP)
       ELSE IF ~scanout THEN Fail(op, s, fb_id, ENOENT)
       ELSE IF fb_id \notin DOMAIN framebuffers THEN Fail(op, s, fb_id, ENOENT)
       ELSE IF ~read_ok THEN Fail(op, s, fb_id, EBACKEND)
       ELSE /\ ret' = Ret(op, s, fb_id, OK, Empty)
            /\ planes' = [p \in DOMAIN planes |-> [planes[p] EXCEPT !.fb_id = fb_id]]
            /\ UNCHANGED <<crtcs, encoders, connectors, framebuffers, objects,
                           properties, next_object_id, next_prop_id, crtc_index,
                           encoder_index, devVars, gemVars, fileVars, histVars,
                           concVars>>

CopyToScanout(op, s, fb_id, read_ok) ==
    /\ s \in opened
    /\ IF ~check_feature(MODESET) THEN Fail(op, s, fb_id, EOPNOTSUPP)
       ELSE IF ~scanout THEN Fail(op, s, fb_id, ENOENT)
       ELSE IF fb_id \notin DOMAIN framebuffers THEN Fail(op, s, fb_id, ENOENT)
       ELSE IF ~read_ok THEN Fail(op, s, fb_id, EBACKEND)
       ELSE Return(op, s, fb_id, OK)

DrmIoctlModeSetCrtc(s, fb_id, read_ok) == CopyToScanout("SetCrtc", s, fb_id, read_ok)

DrmIoctlModeDirtyFb(s, fb_id, read_ok) == CopyToScanout("DirtyFb", s, fb_id, read_ok)

DrmIoctlModeGetEncoder(s, encoder_id, write_ok) ==
    /\ s \in opened
    /\ IF ~check_feature(MODESET) THEN Fail("GetEncoder", s, encoder_id, EOPNOTSUPP)
       ELSE IF encoder_id \notin DOMAIN encoders
            THEN Fail("GetEncoder", s, encoder_id, ENOENT)
       ELSE WriteBack("GetEncoder", s, encoder_id,
                      [encoder_id |-> encoder_id,
                       possible_crtcs |-> encoders[encoder_id].possible_crtcs,
                       possible_clones |-> encoders[encoder_id].possible_clones],
                      write_ok)

\* DrmConnector::count_encoders: possible_encoders_mask.count_ones()
conn_count_encoders(conn) == Cardinality(conn.possible_encoders_mask)

DrmIoctlModeGetConnector(s, req, write_ok) ==
    /\ s \in opened
    /\ IF ~check_feature(MODESET) THEN Fail("GetConnector", s, req, EOPNOTSUPP)
       ELSE IF req.connector_id \notin DOMAIN connectors
            THEN Fail("GetConnector", s, req, ENOENT)
       ELSE LET conn == connectors[req.connector_id]
                count_modes == Cardinality(conn.modes)
                count_props == Cardinality(DOMAIN conn.properties)
            IN
            IF req.encoders_ptr = 0 /\ req.modes_ptr = 0
               /\ req.props_ptr = 0 /\ req.prop_values_ptr = 0
            THEN WriteBack("GetConnector", s, req,
                           [count_modes |-> count_modes,
                            count_props |-> count_props,
                            count_encoders |-> conn_count_encoders(conn),
                            connector_type_id |-> 1,
                            mm_width |-> 384, mm_height |-> 240, pad |-> 0],
                           write_ok)
            ELSE \E om \in Orders(conn.modes),
                    oe \in Orders(conn.possible_encoders_id),
                    op \in Orders(DOMAIN conn.properties) :
                 Fill("GetConnector", s, req,
                      << Stage(req.count_modes >= count_modes,
                               WriteArray(req.modes_ptr, SIZE_MODE_INFO, om)),
                         Stage(req.count_encoders >= conn_count_encoders(conn),
                               WriteArray(req.encoders_ptr, SIZE_U32, oe)),
                         Stage(req.count_props >= count_props,
                               WritePairs(req.props_ptr, SIZE_U32,
                                          req.prop_values_ptr, SIZE_U64,
                                          op, conn.properties)) >>,
                      write_ok)

DRM_PROP_NAME_LEN == 32

\* a faulty variant: names cut one byte short, as for a C string
str_to_u8_32_terminated(str) ==
    LET len == IF Len(str) < DRM_PROP_NAME_LEN - 1 THEN Len(str)
               ELSE DRM_PROP_NAME_LEN - 1
    IN  [bytes |-> SubSeq(str, 1, len), zeros |-> DRM_PROP_NAME_LEN - len]

\* str_to_u8_32: the first min(len, 32) bytes of the string, then zeros up
\* to 32 bytes
str_to_u8_32(str) ==
    LET len == IF Len(str) < DRM_PROP_NAME_LEN THEN Len(str)
               ELSE DRM_PROP_NAME_LEN
    IN  [bytes |-> SubSeq(str, 1, len), zeros |-> DRM_PROP_NAME_LEN - len]

\* PropertyEnum::new
PropertyEnum_new(value, name) == [value |-> value, name |-> str_to_u8_32(name)]

\* DrmProperty::count_values / count_enum_blobs
prop_count_values(prop) ==
    CASE prop.kind \in {"Range", "SignedRange"} -> 2
      [] prop.kind \in {"Enum", "Bitmask"}      -> Len(prop.items)
      [] prop.kind \in {"Blob", "Object"}       -> 1

prop_count_enum_blobs(prop) ==
    CASE prop.kind \in {"Enum", "Bitmask"} -> Len(prop.items)
      [] prop.kind = "Blob"                -> 1
      [] OTHER                             -> 0

\* the write_val calls of a GetProperty Fill, by PropertyKind
PropertyWrites(prop, values_ptr, enum_blob_ptr) ==
    CASE prop.kind \in {"Range", "SignedRange"} ->
            WriteArray(values_ptr, SIZE_U64, <<prop.min, prop.max>>)
      [] prop.kind \in {"Enum", "Bitmask"} ->
            [k \in 1..(2 * Len(prop.items)) |->
                LET i == (k + 1) \div 2 IN
                IF k % 2 = 1
                THEN <<values_ptr + (i - 1) * SIZE_U64, prop.items[i][1]>>
                ELSE <<enum_blob_ptr + (i - 1) * SIZE_PROP_ENUM,
                       PropertyEnum_new(prop.items[i][1], prop.items[i][2])>>]
      [] prop.kind = "Blob"   -> << <<values_ptr, prop.blob_id>> >>
      [] prop.kind = "Object" -> << <<values_ptr, prop.obj_type>> >>

DrmIoctlModeGetProperty(s, req, write_ok) ==
    /\ s \in opened
    /\ IF ~check_feature(MODESET) THEN Fail("GetProperty", s, req, EOPNOTSUPP)
       ELSE IF req.prop_id \notin DOMAIN properties
            THEN Fail("GetProperty", s, req, ENOENT)
       ELSE LET property == properties[req.prop_id] IN
            IF req.values_ptr = 0 /\ req.enum_blob_ptr = 0
            THEN WriteBack("GetProperty", s, req,
                           [name |-> property.name, flags |-> property.flags,
                            count_values |-> prop_count_values(property),
                            count_enum_blobs |-> prop_count_enum_blobs(property)],
                           write_ok)
            ELSE IF \/ req.count_values < prop_count_values(property)
                    \/ req.count_enum_blobs < prop_count_enum_blobs(property)
            THEN Answer("GetProperty", s, req, EINVAL, Empty, << >>)
            ELSE Fill("GetProperty", s, req,
                      << Stage(TRUE, PropertyWrites(property, req.values_ptr,
                                                    req.enum_blob_ptr)) >>,
                      write_ok)

DrmIoctlModeSetProperty(s, req) ==
    /\ s \in opened
    /\ IF ~check_feature(MODESET) THEN Fail("SetProperty", s, req, EOPNOTSUPP)
       ELSE Return("SetProperty", s, req, OK)

DrmIoctlModeGetPropBlob(s, blob_id) ==
    /\ s \in opened
    /\ Return("GetPropBlob", s, blob_id, OK)

\* a faulty variant: the cursor request is accepted like the other stubs
DrmIoctlModeCursor_accepted(s, req) ==
    /\ s \in opened
    /\ Return("Cursor", s, req, OK)

DrmIoctlModeCursor(s, req) ==
    /\ s \in opened
    /\ Fail("Cursor", s, req, ENXIO)

DrmIoctlModeCursor2(s, req) ==
    /\ s \in opened
    /\ Fail("Cursor2", s, req, ENXIO)

DrmIoctlSetGamma(s, req) ==
    /\ s \in opened
    /\ Return("SetGamma", s, req, OK)

DrmIoctlModeGetPlaneResources(s, req, write_ok) ==
    /\ s \in opened
    /\ IF ~check_feature(MODESET) THEN Fail("GetPlaneResources", s, req, EOPNOTSUPP)
       ELSE IF req.plane_id_ptr = 0
       THEN WriteBack("GetPlaneResources", s, req,
                      [count_planes |-> count_planes], write_ok)
       ELSE \E opl \in Orders(DOMAIN planes) :
            Fill("GetPlaneResources", s, req,
                 << Stage(req.count_planes >= count_planes,
                          WriteArray(req.plane_id_ptr, SIZE_U32, opl)) >>,
                 write_ok)

DrmIoctlModeGetPlane(s, plane_id, write_ok) ==
    /\ s \in opened
    /\ IF ~check_feature(MODESET) THEN Fail("GetPlane", s, plane_id, EOPNOTSUPP)
       ELSE IF plane_id \notin DOMAIN planes THEN Fail("GetPlane", s, plane_id, ENOENT)
       ELSE WriteBack("GetPlane", s, plane_id, [gamma_size |-> 0], write_ok)

DrmIoctlModeObjectGetProps(s, req, write_ok) ==
    /\ s \in opened
    /\ IF ~check_feature(MODESET) THEN Fail("ObjectGetProps", s, req, EOPNOTSUPP)
       ELSE IF req.obj_id \notin DOMAIN objects
            THEN Fail("ObjectGetProps", s, req, ENOENT)
       ELSE LET obj == objects[req.obj_id]
                count_props == Cardinality(DOMAIN obj.properties)
            IN
            IF req.props_ptr = 0 /\ req.prop_values_ptr = 0
            THEN WriteBack("ObjectGetProps", s, req,
                           [count_props |-> count_props], write_ok)
            ELSE \E op \in Orders(DOMAIN obj.properties) :
                 Fill("ObjectGetProps", s, req,
                      << Stage(req.count_props >= count_props,
                               WritePairs(req.props_ptr, SIZE_U32,
                                          req.prop_values_ptr, SIZE_U64,
                                          op, obj.properties)) >>,
                      write_ok)

(***************************************************************************)
(* The requests the query ioctls are tried with: a Probe (every pointer    *)
(* zero) and a Fill (every pointer set, the arrays in disjoint regions),   *)
(* each with every capacity either 0 or ample.                             *)
(***************************************************************************)
Ample      == MaxObjects
Capacities == {0, Ample}
ObjectIds  == 0..MaxObjects

GetResourcesReqs ==
    {[fb_id_ptr        |-> IF fill THEN 4000 ELSE 0,
      crtc_id_ptr      |-> IF fill THEN 2000 ELSE 0,
      connector_id_ptr |-> IF fill THEN 1000 ELSE 0,
      encoder_id_ptr   |-> IF fill THEN 3000 ELSE 0,
      count_fbs |-> cf, count_crtcs |-> cc,
      count_connectors |-> cn, count_encoders |-> ce] :
        fill \in BOOLEAN, cf \in Capacities, cc \in Capacities,
        cn \in Capacities, ce \in Capacities}

GetConnectorReqs ==
    {[connector_id    |-> id,
      encoders_ptr    |-> IF fill THEN 1000 ELSE 0,
      modes_ptr       |-> IF fill THEN 2000 ELSE 0,
      props_ptr       |-> IF fill THEN 3000 ELSE 0,
      prop_values_ptr |-> IF fill THEN 4000 ELSE 0,
      count_modes |-> cm, count_props |-> cp, count_encoders |-> ce] :
        id \in ObjectIds, fill \in BOOLEAN, cm \in Capacities,
        cp \in Capacities, ce \in Capacities}

GetPropertyReqs ==
    {[prop_id       |-> id,
      values_ptr    |-> IF fill THEN 1000 ELSE 0,
      enum_blob_ptr |-> IF fill THEN 2000 ELSE 0,
      count_values |-> cv, count_enum_blobs |-> cb] :
        id \in ObjectIds, fill \in BOOLEAN, cv \in Capacities, cb \in Capacities}

GetPlaneResReqs ==
    {[plane_id_ptr |-> IF fill THEN 1000 ELSE 0, count_planes |-> c] :
        fill \in BOOLEAN, c \in Capacities}

ObjectGetPropsReqs ==
    {[obj_id          |-> id,
      props_ptr       |-> IF fill THEN 1000 ELSE 0,
      prop_values_ptr |-> IF fill THEN 2000 ELSE 0,
      count_props |-> c] :
        id \in ObjectIds, fill \in BOOLEAN, c \in Capacities}

(***************************************************************************)
(* The dumb-buffer ioctls.  alloc_ok, write_ok and release_ok are the      *)
(* outcomes of the collaborators: the backing-store allocation, the copy   *)
(* of the response to user memory, and the backend's release.              *)
(***************************************************************************)
DrmIoctlModeCreateDumb(s, d, alloc_ok, write_ok) ==
    /\ s \in opened
    /\ IF ~check_feature(MODESET) THEN Fail("CreateDumb", s, d, EOPNOTSUPP)
       ELSE IF ~dumb_create THEN Fail("CreateDumb", s, d, ENOENT)
       ELSE IF ~alloc_ok THEN Fail("CreateDumb", s, d, ENOMEM)
       ELSE
        /\ Len(gems) < MaxGems
        /\ LET gem == dumb_create_impl(d.width, d.height, d.bpp)
               g   == Len(gems) + 1
               h   == next_handle[s]
           IN  /\ gems' = Append(gems, gem)
               /\ next_handle' = [next_handle EXCEPT ![s] = fetch_add(@)]
               /\ gem_table' = insert_gem(s, h, g)
               /\ IF write_ok
                  THEN /\ ret' = Ret("CreateDumb", s, d, OK,
                                     [handle |-> h, pitch |-> gem.pitch,
                                      size |-> gem.size])
                       /\ created' = [created EXCEPT ![s] = @ + 1]
                  ELSE /\ ret' = Ret("CreateDumb", s, d, EFAULT, Empty)
                       /\ created' = created
        /\ UNCHANGED <<regVars, devVars, offsets, next_offset, opened, caps,
                       issued, issued_props, destroyed, concVars>>

DrmIoctlModeMapDumb(s, h, write_ok) ==
    /\ s \in opened
    /\ IF ~check_feature(MODESET) THEN Fail("MapDumb", s, h, EOPNOTSUPP)
       ELSE IF ~dumb_create THEN Fail("MapDumb", s, h, ENOSYS)
       ELSE IF lookup_gem(s, h) = {} THEN Fail("MapDumb", s, h, ENOENT)
       ELSE
        /\ next_offset <= MaxOffsets
        /\ \E g \in lookup_gem(s, h) : create_offset(g)
        /\ ret' = IF write_ok
                  THEN Ret("MapDumb", s, h, OK, [offset |-> next_offset])
                  ELSE Ret("MapDumb", s, h, EFAULT, Empty)
        /\ UNCHANGED <<regVars, devVars, gems, fileVars, histVars, concVars>>

\* what DestroyDumb returns for a handle that remove_gem does not find
destroy_missing_errno == EINVAL

DrmIoctlModeDestroyDumb(s, h, release_ok) ==
    /\ s \in opened
    /\ IF ~dumb_create THEN Fail("DestroyDumb", s, h, ENOSYS)
       ELSE IF lookup_gem(s, h) = {}
            THEN Fail("DestroyDumb", s, h, destroy_missing_errno)
       ELSE \E g \in lookup_gem(s, h) :
        /\ gem_table' = remove_gem(s, h)
        /\ gems' = gem_release(g, release_ok)
        /\ IF release_ok
           THEN /\ offsets' = remove_offset(g)
                /\ ret' = Ret("DestroyDumb", s, h, OK, Empty)
                /\ destroyed' = [destroyed EXCEPT ![s] = @ \cup {h}]
           ELSE /\ offsets' = offsets
                /\ ret' = Ret("DestroyDumb", s, h, EBACKEND, Empty)
                /\ destroyed' = destroyed
        /\ UNCHANGED <<regVars, devVars, next_offset, opened, next_handle, caps,
                       issued, issued_props, created, concVars>>

(***************************************************************************)
(* Framebuffers.                                                           *)
(***************************************************************************)
DrmIoctlModeAddFB(s, h, f, write_ok) ==
    /\ s \in opened
    /\ IF ~check_feature(MODESET) THEN Fail("AddFB", s, h, EOPNOTSUPP)
       ELSE IF lookup_gem(s, h) = {} THEN Fail("AddFB", s, h, EINVAL)
       ELSE \E g \in lookup_gem(s, h), id \in {next_object_id} :
        /\ next_object_id < MaxObjects
        /\ create_framebuffer(id, f.width, f.height, f.pitch, f.bpp, g)
        /\ ret' = IF write_ok
                  THEN Ret("AddFB", s, h, OK, [fb_id |-> id])
                  ELSE Ret("AddFB", s, h, EFAULT, Empty)
        /\ UNCHANGED <<devVars, gemVars, fileVars, created, destroyed, concVars>>

\* a faulty variant: removing the framebuffer also releases its buffer and
\* drops the buffer's offsets
DrmIoctlModeRmFB_releases(s, fb_id) ==
    /\ s \in opened
    /\ IF ~check_feature(MODESET) THEN Fail("RmFB", s, fb_id, EOPNOTSUPP)
       ELSE
        /\ remove_framebuffer(fb_id)
        /\ ret' = Ret("RmFB", s, fb_id, OK, Empty)
        /\ IF fb_id \in DOMAIN framebuffers
           THEN /\ gems' = gem_release(framebuffers[fb_id].gem_obj, TRUE)
                /\ offsets' = remove_offset(framebuffers[fb_id].gem_obj)
                /\ UNCHANGED next_offset
           ELSE UNCHANGED gemVars
        /\ UNCHANGED <<devVars, fileVars, created, destroyed, concVars>>

DrmIoctlModeRmFB(s, fb_id) ==
    /\ s \in opened
    /\ IF ~check_feature(MODESET) THEN Fail("RmFB", s, fb_id, EOPNOTSUPP)
       ELSE
        /\ remove_framebuffer(fb_id)
        /\ ret' = Ret("RmFB", s, fb_id, OK, Empty)
        /\ UNCHANGED <<devVars, gemVars, fileVars, created, destroyed, concVars>>

(***************************************************************************)
(* The dumb-buffer specification: a device with or without MODESET, with   *)
(* or without the dumb-buffer hook; bring-up; then any CreateDumb, MapDumb *)
(* and DestroyDumb calls through one open file.                            *)
(***************************************************************************)
NoRet == Ret("none", 0, 0, OK, Empty)

\* a faulty variant: the property counter starts at zero like the object
\* counter
InitRegistry_prop_zero ==
    /\ planes = Empty /\ crtcs = Empty /\ encoders = Empty
    /\ connectors = Empty /\ framebuffers = Empty /\ objects = Empty
    /\ properties = Empty
    /\ next_object_id = 0 /\ next_prop_id = 0
    /\ crtc_index = 0 /\ encoder_index = 0

InitRegistry ==       \* DrmModeConfig::default()
    /\ planes = Empty /\ crtcs = Empty /\ encoders = Empty
    /\ connectors = Empty /\ framebuffers = Empty /\ objects = Empty
    /\ properties = Empty
    /\ next_object_id = 0 /\ next_prop_id = 1
    /\ crtc_index = 0 /\ encoder_index = 0

InitRest ==
    /\ offsets = Empty /\ next_offset = 1
    /\ opened = {}
    /\ next_handle = [s \in Sessions |-> 1]
    /\ gem_table = [s \in Sessions |-> Empty]
    /\ caps = [s \in Sessions |-> NoCaps]
    /\ ret = NoRet
    /\ issued = << >> /\ issued_props = << >>
    /\ created = [s \in Sessions |-> 0]
    /\ destroyed = [s \in Sessions |-> {}]
    /\ pc = [t \in Threads |-> "idle"]
    /\ got = [t \in Threads |-> 0]
    /\ lock = 0

\* a device of any driver: its feature set, and whether it has the hook
InitDevice(feature_sets, scanouts) ==
    /\ driver_features \in feature_sets
    /\ dumb_create \in BOOLEAN
    /\ scanout \in scanouts
    /\ bringup = "new" /\ minors = {}
    /\ gems = << >>
    /\ InitRegistry
    /\ InitRest

\* the dumb-buffer ioctls read MODESET only, and never the scanout surface
Init == InitDevice({{}, {MODESET}}, {FALSE})

BringupNext ==
    \/ init_standard_properties
    \/ InitPlane
    \/ InitCrtc
    \/ InitEncoder
    \/ InitConnector
    \/ drm_dev_register

Next ==
    \/ BringupNext
    \/ Open(1)
    \/ \E s \in opened, d \in Dims, a \in BOOLEAN, w \in BOOLEAN :
           DrmIoctlModeCreateDumb(s, d, a, w)
    \/ \E s \in opened, h \in Handles, w \in BOOLEAN :
           DrmIoctlModeMapDumb(s, h, w)
    \/ \E s \in opened, h \in Handles, r \in BOOLEAN :
           DrmIoctlModeDestroyDumb(s, h, r)

Spec == Init /\ [][Next]_vars

(***************************************************************************)
(* The registry specification: a driver building one DrmModeConfig with    *)
(* any mix of the object constructors, create_framebuffer and              *)
(* remove_framebuffer, and any calls of next_prop_id.  The device is not   *)
(* yet registered, so no file exists.                                      *)
(***************************************************************************)
\* everything outside the registry and its id histories
notRegVars == <<devVars, gemVars, fileVars, created, destroyed, concVars, ret>>

RegPlane ==
    /\ next_object_id < MaxRegObjs
    /\ \E ty \in PlaneTypes : DrmPlane_init(ty)
    /\ UNCHANGED notRegVars

RegCrtc ==
    /\ next_object_id < MaxRegObjs
    /\ \E p \in DOMAIN planes : DrmCrtc_init_with_planes(p)
    /\ UNCHANGED notRegVars

RegEncoder ==
    /\ next_object_id < MaxRegObjs
    /\ \E cs \in SUBSET DOMAIN crtcs : DrmEncoder_init_with_crtcs(cs)
    /\ UNCHANGED notRegVars

RegConnector ==
    /\ next_object_id < MaxRegObjs
    /\ \E es \in SUBSET DOMAIN encoders :
           DrmConnector_init_with_encoder({"1280x800"}, es)
    /\ UNCHANGED notRegVars

RegCreateFramebuffer ==
    /\ next_object_id < MaxRegObjs
    /\ \E id \in {next_object_id}, f \in FbDims, g \in 1..Len(gems) :
           create_framebuffer(id, f.width, f.height, f.pitch, f.bpp, g)
    /\ UNCHANGED notRegVars

RegRemoveFramebuffer ==
    /\ \E fb_id \in DOMAIN framebuffers : remove_framebuffer(fb_id)
    /\ UNCHANGED notRegVars

RegNextPropId ==
    /\ next_prop_id <= MaxProps
    /\ \E id \in {next_prop_id} : NextPropId(id)
    /\ UNCHANGED <<planes, crtcs, encoders, connectors, framebuffers, objects,
                   properties, next_object_id, crtc_index, encoder_index, issued>>
    /\ UNCHANGED notRegVars

\* one buffer exists for the framebuffers to wrap
InitReg ==
    /\ driver_features = {MODESET}
    /\ dumb_create = TRUE
    /\ scanout = FALSE
    /\ bringup = "new" /\ minors = {}
    /\ gems = << dumb_create_impl(1280, 800, 32) >>
    /\ InitRegistry
    /\ InitRest

NextReg ==
    \/ RegPlane
    \/ RegCrtc
    \/ RegEncoder
    \/ RegConnector
    \/ RegCreateFramebuffer
    \/ RegRemoveFramebuffer
    \/ RegNextPropId

SpecReg == InitReg /\ [][NextReg]_vars

StrictlyIncreasing(seq) ==
    \A i \in 1..Len(seq), j \in 1..Len(seq) : i < j => seq[i] < seq[j]

\* C1: the object ids a registry returns, in the order it returns them, are
\* strictly increasing (so none is issued twice), whatever mix of
\* constructors, create_framebuffer and remove_framebuffer produced them;
\* the property ids are strictly increasing too and all above zero; and
\* each counter has advanced by exactly the number of ids of its own kind
\* (allocating from one does not advance the other).
C1_IdsStrictlyIncreasing ==
    /\ StrictlyIncreasing(issued)
    /\ StrictlyIncreasing(issued_props)
    /\ \A i \in 1..Len(issued_props) : issued_props[i] > 0
    /\ \A i \in 1..Len(issued) : issued[i] < next_object_id
    /\ \A i \in 1..Len(issued_props) : issued_props[i] < next_prop_id
    /\ next_object_id - Len(issued) = 0
    /\ next_prop_id - Len(issued_props) = 1
    /\ DOMAIN objects = {issued[i] : i \in 1..Len(issued)}

\* ids of several kinds were issued, a framebuffer was removed and another
\* created after it, and property ids were allocated as well
C1_Witness ==
    /\ planes # Empty /\ crtcs # Empty /\ encoders # Empty
    /\ framebuffers # Empty
    /\ DOMAIN framebuffers # {i \in DOMAIN objects : objects[i].kind = "fb"}
    /\ \E i \in DOMAIN framebuffers, j \in DOMAIN objects :
           objects[j].kind = "fb" /\ j \notin DOMAIN framebuffers /\ j < i
    /\ Len(issued_props) >= 2

(***************************************************************************)
(* The concurrent specification: NumThreads creation calls against one     *)
(* registry.  Each call takes its id with next_object_id(&self), one       *)
(* atomic fetch_add, at any moment; the insertion into the tables needs    *)
(* the registry exclusively (&mut DrmModeConfig behind the device's        *)
(* mutex).                                                                 *)
(***************************************************************************)
notConcVars == <<devVars, gemVars, fileVars, issued_props, created, destroyed, ret>>

ConcNextObjectId(t) ==
    /\ pc[t] = "idle"
    /\ \E id \in {next_object_id} :
          /\ NextObjectId(id)
          /\ got' = [got EXCEPT ![t] = id]
    /\ pc' = [pc EXCEPT ![t] = "allocated"]
    /\ UNCHANGED <<planes, crtcs, encoders, connectors, framebuffers, objects,
                   properties, next_prop_id, crtc_index, encoder_index, lock>>
    /\ UNCHANGED notConcVars

ConcLock(t) ==
    /\ pc[t] = "allocated"
    /\ lock = 0
    /\ lock' = t
    /\ pc' = [pc EXCEPT ![t] = "locked"]
    /\ UNCHANGED <<regVars, issued, got>>
    /\ UNCHANGED notConcVars

ConcInsert(t) ==
    /\ pc[t] = "locked"
    /\ lock = t
    /\ \E f \in FbDims :
          framebuffers' = insert(framebuffers, got[t],
               [width |-> f.width, height |-> f.height, pitch |-> f.pitch,
                bpp |-> f.bpp, gem_obj |-> 1, properties |-> Empty])
    /\ objects' = insert(objects, got[t], Object("fb"))
    /\ lock' = 0
    /\ pc' = [pc EXCEPT ![t] = "done"]
    /\ UNCHANGED <<planes, crtcs, encoders, connectors, properties,
                   next_object_id, next_prop_id, crtc_index, encoder_index,
                   issued, got>>
    /\ UNCHANGED notConcVars

NextConc ==
    \/ \E t \in Threads : ConcNextObjectId(t)
    \/ \E t \in Threads : ConcLock(t)
    \/ \E t \in Threads : ConcInsert(t)

SpecConc == InitReg /\ [][NextConc]_vars

\* C2: the calls that have taken an id hold pairwise distinct ids, at every
\* point of every interleaving, and when all K have finished the registry
\* holds K objects.
C2_ConcurrentIdsDistinct ==
    /\ \A t1 \in Threads, t2 \in Threads :
          (t1 # t2 /\ pc[t1] # "idle" /\ pc[t2] # "idle") => got[t1] # got[t2]
    /\ (\A t \in Threads : pc[t] = "done")
          => Cardinality(DOMAIN objects) = NumThreads

\* all K calls have finished, and the call that inserted first was not the
\* one that allocated first
C2_Witness ==
    /\ \A t \in Threads : pc[t] = "done"
    /\ Cardinality({got[t] : t \in Threads}) = NumThreads
    /\ got[1] > got[2]

(***************************************************************************)
(* The capability specification: a device of any feature set, bring-up,    *)
(* then any GetCap and SetClientCap calls through one open file (the       *)
(* flags are fields of the file, and the handlers read no other file).     *)
(***************************************************************************)
InitCap == InitDevice(FeatureSets, {FALSE})

NextCap ==
    \/ BringupNext
    \/ Open(1)
    \/ \E s \in opened, cap \in DrmCapabilities \cup {"Unknown"}, w \in BOOLEAN :
           DrmIoctlGetCap(s, cap, w)
    \/ \E s \in opened, cap \in ClientCaps \cup {"Unknown"}, v \in ClientCapValues :
           DrmIoctlSetClientCap(s, cap, v)
    \/ \E s \in opened, d \in Dims :
           /\ gems = << >>
           /\ DrmIoctlModeCreateDumb(s, d, TRUE, TRUE)

SpecCap == InitCap /\ [][NextCap]_vars

(***************************************************************************)
(* The geometry specification: CreateDumb through one open file of a       *)
(* MODESET device, tried with several geometries.                          *)
(***************************************************************************)
DimsCalc ==
    { [width |-> 1280, height |-> 800, bpp |-> 32],
      [width |-> 640,  height |-> 480, bpp |-> 16],
      [width |-> 3,    height |-> 2,   bpp |-> 12],
      [width |-> 16,   height |-> 16,  bpp |-> 1] }

InitCalc == InitDevice({{MODESET}}, {FALSE})

NextCalc ==
    \/ BringupNext
    \/ Open(1)
    \/ \E s \in opened, d \in DimsCalc, a \in BOOLEAN, w \in BOOLEAN :
           DrmIoctlModeCreateDumb(s, d, a, w)

SpecCalc == InitCalc /\ [][NextCalc]_vars

(***************************************************************************)
(* The gating specification: a device whose feature set lacks MODESET,     *)
(* bring-up, then any call of the operations the dispatcher lists as       *)
(* mode-setting operations.                                                *)
(***************************************************************************)
ModesetOps ==
    {"GetResources", "GetCrtc", "SetCrtc", "GetEncoder", "GetConnector",
     "GetProperty", "SetProperty", "AddFB", "RmFB", "DirtyFb", "CreateDumb",
     "MapDumb", "DestroyDumb", "GetPlaneResources", "GetPlane", "ObjectGetProps"}

InitGate == InitDevice({f \in FeatureSets : MODESET \notin f}, BOOLEAN)

NextGate ==
    \/ BringupNext
    \/ \E s \in Sessions : Open(s)
    \/ \E s \in Sessions, req \in GetResourcesReqs, w \in BOOLEAN :
           DrmIoctlModeGetResources(s, req, w)
    \/ \E s \in Sessions, id \in ObjectIds, w \in BOOLEAN :
           DrmIoctlModeGetCrtc(s, id, w)
    \/ \E s \in Sessions, id \in ObjectIds, r \in BOOLEAN :
           DrmIoctlModeSetCrtc(s, id, r)
    \/ \E s \in Sessions, id \in ObjectIds, w \in BOOLEAN :
           DrmIoctlModeGetEncoder(s, id, w)
    \/ \E s \in Sessions, req \in GetConnectorReqs, w \in BOOLEAN :
           DrmIoctlModeGetConnector(s, req, w)
    \/ \E s \in Sessions, req \in GetPropertyReqs, w \in BOOLEAN :
           DrmIoctlModeGetProperty(s, req, w)
    \/ \E s \in Sessions, id \in ObjectIds :
           DrmIoctlModeSetProperty(s, id)
    \/ \E s \in Sessions, h \in Handles, f \in FbDims, w \in BOOLEAN :
           DrmIoctlModeAddFB(s, h, f, w)
    \/ \E s \in Sessions, id \in ObjectIds :
           DrmIoctlModeRmFB(s, id)
    \/ \E s \in Sessions, id \in ObjectIds, r \in BOOLEAN :
           DrmIoctlModeDirtyFb(s, id, r)
    \/ \E s \in Sessions, d \in Dims, a \in BOOLEAN, w \in BOOLEAN :
           DrmIoctlModeCreateDumb(s, d, a, w)
    \/ \E s \in Sessions, h \in Handles, w \in BOOLEAN :
           DrmIoctlModeMapDumb(s, h, w)
    \/ \E s \in Sessions, h \in Handles, r \in BOOLEAN :
           DrmIoctlModeDestroyDumb(s, h, r)
    \/ \E s \in Sessions, req \in GetPlaneResReqs, w \in BOOLEAN :
           DrmIoctlModeGetPlaneResources(s, req, w)
    \/ \E s \in Sessions, id \in ObjectIds, w \in BOOLEAN :
           DrmIoctlModeGetPlane(s, id, w)
    \/ \E s \in Sessions, req \in ObjectGetPropsReqs, w \in BOOLEAN :
           DrmIoctlModeObjectGetProps(s, req, w)

SpecGate == InitGate /\ [][NextGate]_vars

TwoPhaseOps ==
    {"GetVersion", "GetResources", "GetConnector", "GetProperty",
     "GetPlaneResources", "ObjectGetProps"}

\* is_first_call() of the request structures
is_first_call(op, req) ==
    CASE op = "GetVersion"   -> req.name = 0 /\ req.date = 0 /\ req.desc = 0
      [] op = "GetResources" -> /\ req.fb_id_ptr = 0 /\ req.crtc_id_ptr = 0
                                /\ req.connector_id_ptr = 0 /\ req.encoder_id_ptr = 0
      [] op = "GetConnector" -> /\ req.encoders_ptr = 0 /\ req.modes_ptr = 0
                                /\ req.props_ptr = 0 /\ req.prop_values_ptr = 0
      [] op = "GetProperty"  -> req.values_ptr = 0 /\ req.enum_blob_ptr = 0
      [] op = "GetPlaneResources" -> req.plane_id_ptr = 0
      [] op = "ObjectGetProps" -> req.props_ptr = 0 /\ req.prop_values_ptr = 0

(***************************************************************************)
(* GetVersion.  The strings are those of the simpledrm driver; a string is *)
(* copied out by one write_bytes call, logged as <<address, string>>.      *)
(***************************************************************************)
SIMPLEDRM_NAME == "simpledrm"
SIMPLEDRM_DESC == "DRM driver for simple-framebuffer platform devices"
SIMPLEDRM_DATE == "2025-01-02"

DrmIoctlVersion(s, req, write_ok) ==
    /\ s \in opened
    /\ LET name_len == Len(SIMPLEDRM_NAME)
           desc_len == Len(SIMPLEDRM_DESC)
           date_len == Len(SIMPLEDRM_DATE)
       IN
       IF req.name = 0 /\ req.date = 0 /\ req.desc = 0
       THEN WriteBack("GetVersion", s, req,
                      [name_len |-> name_len, desc_len |-> desc_len,
                       date_len |-> date_len], write_ok)
       ELSE LET r == FillLog(<< Stage(req.name_len >= name_len,
                                      << <<req.name, SIMPLEDRM_NAME>> >>),
                                Stage(req.desc_len >= desc_len,
                                      << <<req.desc, SIMPLEDRM_DESC>> >>),
                                Stage(req.date_len >= date_len,
                                      << <<req.date, SIMPLEDRM_DATE>> >>) >>)
            IN
            IF r.log # << >> /\ ~write_ok
            THEN Answer("GetVersion", s, req, EFAULT, Empty, << >>)
            ELSE Answer("GetVersion", s, req, IF r.ok THEN OK ELSE EINVAL,
                        Empty, r.log)

\* a string capacity is 0 or ample
AmpleLen == 64
VersionReqs ==
    {[name |-> IF fill THEN 1000 ELSE 0,
      desc |-> IF fill THEN 2000 ELSE 0,
      date |-> IF fill THEN 3000 ELSE 0,
      name_len |-> nl, desc_len |-> dl, date_len |-> tl] :
        fill \in BOOLEAN, nl \in {0, AmpleLen}, dl \in {0, AmpleLen},
        tl \in {0, AmpleLen}}

(***************************************************************************)
(* The two-phase queries on a device with MODESET and the dumb-buffer      *)
(* hook, after bring-up, while framebuffers come and go.                   *)
(***************************************************************************)
\* DrmProperty::create, create_bool, create_range, create_enum
DrmProperty_create(name, flags) ==
    [name |-> str_to_u8_32(name), flags |-> flags, kind |-> "Blob", min |-> 0, max |-> 0,
     items |-> << >>, blob_id |-> 1, obj_type |-> 0]

DrmProperty_create_range(name, flags, min, max) ==
    [name |-> str_to_u8_32(name), flags |-> flags \cup {"RANGE"}, kind |-> "Range",
     min |-> min, max |-> max, items |-> << >>, blob_id |-> 0, obj_type |-> 0]

DrmProperty_create_bool(name, flags) == DrmProperty_create_range(name, flags, 0, 1)

DrmProperty_create_enum(name, flags, enums) ==
    [name |-> str_to_u8_32(name), flags |-> flags \cup {"ENUM"}, kind |-> "Enum",
     min |-> 0, max |-> 0, items |-> enums, blob_id |-> 0, obj_type |-> 0]

\* The property tables the queries are tried on.  No code path of the
\* repository inserts into DrmModeConfig.properties, so the table is an
\* input of the handlers: it is empty, or holds one property from each
\* constructor, under the ids next_prop_id would have issued.
PropertyTables ==
    { Empty,
      (1 :> DrmProperty_create_bool("bool", {}))
        @@ (2 :> DrmProperty_create_enum("enum", {}, << <<0, "Off">>, <<1, "On">> >>))
        @@ (3 :> DrmProperty_create("blob", {"BLOB"})) }

\* a single buffer is enough to back the framebuffers the queries list
MaxQueryGems == 1

InitQuery ==
    /\ driver_features = {MODESET}
    /\ dumb_create = TRUE
    /\ scanout = FALSE
    /\ bringup = "new" /\ minors = {}
    /\ gems = << >>
    /\ planes = Empty /\ crtcs = Empty /\ encoders = Empty
    /\ connectors = Empty /\ framebuffers = Empty /\ objects = Empty
    /\ properties \in PropertyTables
    /\ next_object_id = 0
    /\ next_prop_id = Cardinality(DOMAIN properties) + 1
    /\ crtc_index = 0 /\ encoder_index = 0
    /\ InitRest

NextQuery ==
    \/ BringupNext
    \/ Open(1)
    \/ \E s \in opened, d \in Dims :
           /\ Len(gems) < MaxQueryGems
           /\ DrmIoctlModeCreateDumb(s, d, TRUE, TRUE)
    \/ \E s \in opened, h \in Handles, f \in FbDims, w \in BOOLEAN :
           DrmIoctlModeAddFB(s, h, f, w)
    \/ \E s \in opened, id \in ObjectIds :
           DrmIoctlModeRmFB(s, id)
    \/ \E s \in opened, req \in GetPropertyReqs, w \in BOOLEAN :
           /\ req.prop_id \in 0..(MaxProps + 1)
           /\ DrmIoctlModeGetProperty(s, req, w)
    \/ \E s \in opened, req \in VersionReqs, w \in BOOLEAN :
           DrmIoctlVersion(s, req, w)
    \/ \E s \in opened, req \in GetResourcesReqs, w \in BOOLEAN :
           DrmIoctlModeGetResources(s, req, w)
    \/ \E s \in opened, req \in GetConnectorReqs, w \in BOOLEAN :
           /\ req.connector_id \in DOMAIN connectors \cup {0}
           /\ DrmIoctlModeGetConnector(s, req, w)
    \/ \E s \in opened, req \in GetPlaneResReqs, w \in BOOLEAN :
           DrmIoctlModeGetPlaneResources(s, req, w)
    \/ \E s \in opened, req \in ObjectGetPropsReqs, w \in BOOLEAN :
           /\ req.obj_id \in DOMAIN connectors \cup DOMAIN framebuffers \cup {MaxObjects}
           /\ DrmIoctlModeObjectGetProps(s, req, w)

SpecQuery == InitQuery /\ [][NextQuery]_vars

(***************************************************************************)
(* The buffer and framebuffer calls with every outcome of their            *)
(* collaborators, on a device with MODESET and the dumb-buffer hook.       *)
(***************************************************************************)
NextFb ==
    \/ BringupNext
    \/ Open(1)
    \/ \E s \in opened, d \in Dims, a \in BOOLEAN, w \in BOOLEAN :
           DrmIoctlModeCreateDumb(s, d, a, w)
    \/ \E s \in opened, h \in Handles, w \in BOOLEAN :
           DrmIoctlModeMapDumb(s, h, w)
    \/ \E s \in opened, h \in Handles, r \in BOOLEAN :
           DrmIoctlModeDestroyDumb(s, h, r)
    \/ \E s \in opened, h \in Handles, f \in FbDims, w \in BOOLEAN :
           DrmIoctlModeAddFB(s, h, f, w)
    \/ \E s \in opened, id \in ObjectIds :
           DrmIoctlModeRmFB(s, id)

\* the property table as the repository's bring-up leaves it
InitFb == InitQuery /\ properties = Empty

SpecFb == InitFb /\ [][NextFb]_vars

(***************************************************************************)
(* The calls that name an object id or a buffer handle, on the same        *)
(* device: the id queries as Probes, MapDumb and AddFB.                    *)
(***************************************************************************)
NextLookup ==
    \/ BringupNext
    \/ Open(1)
    \/ \E s \in opened, d \in Dims :
           /\ Len(gems) < MaxQueryGems
           /\ DrmIoctlModeCreateDumb(s, d, TRUE, TRUE)
    \/ \E s \in opened, h \in Handles, w \in BOOLEAN :
           DrmIoctlModeMapDumb(s, h, w)
    \/ \E s \in opened, h \in Handles, f \in FbDims, w \in BOOLEAN :
           DrmIoctlModeAddFB(s, h, f, w)
    \/ \E s \in opened, id \in ObjectIds :
           DrmIoctlModeRmFB(s, id)
    \/ \E s \in opened, id \in ObjectIds, w \in BOOLEAN :
           DrmIoctlModeGetCrtc(s, id, w)
    \/ \E s \in opened, id \in ObjectIds, w \in BOOLEAN :
           DrmIoctlModeGetEncoder(s, id, w)
    \/ \E s \in opened, id \in ObjectIds, w \in BOOLEAN :
           DrmIoctlModeGetPlane(s, id, w)
    \/ \E s \in opened, req \in GetConnectorReqs, w \in BOOLEAN :
           /\ is_first_call("GetConnector", req) /\ req.count_modes = 0
           /\ req.count_props = 0 /\ req.count_encoders = 0
           /\ DrmIoctlModeGetConnector(s, req, w)
    \/ \E s \in opened, req \in GetPropertyReqs, w \in BOOLEAN :
           /\ is_first_call("GetProperty", req) /\ req.count_values = 0
           /\ req.count_enum_blobs = 0
           /\ DrmIoctlModeGetProperty(s, req, w)
    \/ \E s \in opened, req \in ObjectGetPropsReqs, w \in BOOLEAN :
           /\ is_first_call("ObjectGetProps", req) /\ req.count_props = 0
           /\ DrmIoctlModeObjectGetProps(s, req, w)

SpecLookup == InitQuery /\ [][NextLookup]_vars

(***************************************************************************)
(* MapDumb and DestroyDumb called by several threads on one open file.     *)
(* Neither handler holds a lock across its steps: lookup_gem and           *)
(* remove_gem lock the handle table for the one access only, and           *)
(* create_offset, release and remove_offset are separate calls, so the     *)
(* steps of two calls interleave.  got[t] is <<handle, buffer>>, the       *)
(* Arc the thread holds.                                                   *)
(***************************************************************************)
RaceStep(t, to) ==
    /\ pc' = [pc EXCEPT ![t] = to]
    /\ UNCHANGED <<regVars, devVars, opened, next_handle, caps, issued,
                   issued_props, created, lock>>

\* MapDumb up to lookup_gem
MapDumbLookup(t, s, h) ==
    /\ s \in opened /\ pc[t] = "idle"
    /\ IF lookup_gem(s, h) = {} THEN Fail("MapDumb", s, h, ENOENT)
       ELSE /\ \E g \in lookup_gem(s, h) : got' = [got EXCEPT ![t] = <<h, g>>]
            /\ RaceStep(t, "map_found")
            /\ UNCHANGED <<gemVars, gem_table, destroyed, ret>>

\* MapDumb from create_offset on
MapDumbCreateOffset(t, s, write_ok) ==
    /\ pc[t] = "map_found"
    /\ next_offset <= MaxOffsets
    /\ create_offset(got[t][2])
    /\ ret' = IF write_ok
              THEN Ret("MapDumb", s, got[t][1], OK, [offset |-> next_offset])
              ELSE Ret("MapDumb", s, got[t][1], EFAULT, Empty)
    /\ RaceStep(t, "idle")
    /\ UNCHANGED <<gems, gem_table, destroyed, got>>

\* DestroyDumb up to remove_gem
DestroyDumbRemove(t, s, h) ==
    /\ s \in opened /\ pc[t] = "idle"
    /\ IF lookup_gem(s, h) = {} THEN Fail("DestroyDumb", s, h, destroy_missing_errno)
       ELSE /\ \E g \in lookup_gem(s, h) : got' = [got EXCEPT ![t] = <<h, g>>]
            /\ gem_table' = remove_gem(s, h)
            /\ RaceStep(t, "destroy_removed")
            /\ UNCHANGED <<gemVars, destroyed, ret>>

\* gem_obj.release()?
DestroyDumbRelease(t, s, release_ok) ==
    /\ pc[t] = "destroy_removed"
    /\ gems' = gem_release(got[t][2], release_ok)
    /\ IF release_ok
       THEN RaceStep(t, "destroy_released") /\ ret' = ret
       ELSE /\ RaceStep(t, "idle")
            /\ ret' = Ret("DestroyDumb", s, got[t][1], EBACKEND, Empty)
    /\ UNCHANGED <<offsets, next_offset, gem_table, destroyed, got>>

\* self.device.remove_offset(&gem_obj); Ok(0)
DestroyDumbRemoveOffset(t, s) ==
    /\ pc[t] = "destroy_released"
    /\ offsets' = remove_offset(got[t][2])
    /\ ret' = Ret("DestroyDumb", s, got[t][1], OK, Empty)
    /\ destroyed' = [destroyed EXCEPT ![s] = @ \cup {got[t][1]}]
    /\ RaceStep(t, "idle")
    /\ UNCHANGED <<gems, next_offset, gem_table, got>>

NextRace ==
    \/ BringupNext
    \/ Open(1)
    \/ \E s \in opened, d \in Dims : DrmIoctlModeCreateDumb(s, d, TRUE, TRUE)
    \/ \E t \in Threads, s \in opened, h \in Handles : MapDumbLookup(t, s, h)
    \/ \E t \in Threads, s \in opened, w \in BOOLEAN : MapDumbCreateOffset(t, s, w)
    \/ \E t \in Threads, s \in opened, h \in Handles : DestroyDumbRemove(t, s, h)
    \/ \E t \in Threads, s \in opened, r \in BOOLEAN : DestroyDumbRelease(t, s, r)
    \/ \E t \in Threads, s \in opened : DestroyDumbRemoveOffset(t, s)

SpecRace == InitFb /\ [][NextRace]_vars

(***************************************************************************)
(* The index specification: a driver that keeps adding CRTCs and encoders  *)
(* to one DrmModeConfig.  Nothing in the constructors limits how many are  *)
(* created; the encoders are created with an empty CRTC list, so no mask   *)
(* bit is shifted.                                                         *)
(***************************************************************************)
MaxIndexCrtcs == 33
MaxIndexEncoders == 2

IdxPlane ==
    /\ planes = Empty
    /\ DrmPlane_init("Primary")
    /\ UNCHANGED notRegVars

IdxCrtc ==
    /\ Cardinality(DOMAIN crtcs) < MaxIndexCrtcs
    /\ \E p \in DOMAIN planes : DrmCrtc_init_with_planes(p)
    /\ UNCHANGED notRegVars

IdxEncoder ==
    /\ Cardinality(DOMAIN encoders) < MaxIndexEncoders
    /\ DrmEncoder_init_with_crtcs({})
    /\ UNCHANGED notRegVars

NextIndex ==
    \/ IdxPlane
    \/ IdxCrtc
    \/ IdxEncoder

SpecIndex == InitReg /\ [][NextIndex]_vars

(***************************************************************************)
(* The control specification: a device with or without MODESET, with or    *)
(* without a legacy scanout surface; bring-up; then every operation of the *)
(* dispatcher through one open file.  The two-phase queries are issued as  *)
(* Probes, the buffers are created without failure.                        *)
(***************************************************************************)
InitControl == InitDevice({{}, {MODESET}}, BOOLEAN)

\* all-zero requests of the two-phase queries, naming object id
ProbeOf(reqs, field, id) ==
    {r \in reqs : /\ r[field] = id
                  /\ \A f \in DOMAIN r \ {field} : r[f] = 0}

\* the arguments the stub operations are tried with: an absent id and the
\* id of the CRTC
StubArgs == {0, 1}
\* framebuffers created in one run of the control specification
MaxControlFbs == 1

NextControl ==
    \/ BringupNext
    \/ Open(1)
    \/ \E s \in opened, cap \in {"DumbBuffer", "Unknown"} : DrmIoctlGetCap(s, cap, TRUE)
    \/ \E s \in opened, v \in {1, 2} : DrmIoctlSetClientCap(s, "UniversalPlane", v)
    \/ \E s \in opened, req \in {r \in VersionReqs : is_first_call("GetVersion", r)} :
           DrmIoctlVersion(s, req, TRUE)
    \/ \E s \in opened, req \in {r \in GetResourcesReqs :
                                     \A f \in DOMAIN r : r[f] = 0} :
           DrmIoctlModeGetResources(s, req, TRUE)
    \/ \E s \in opened, id \in DOMAIN crtcs : DrmIoctlModeGetCrtc(s, id, TRUE)
    \/ \E s \in opened, id \in DOMAIN framebuffers \cup {0}, r \in BOOLEAN :
           DrmIoctlModeSetCrtc(s, id, r)
    \/ \E s \in opened, id \in DOMAIN encoders : DrmIoctlModeGetEncoder(s, id, TRUE)
    \/ \E s \in opened, id \in DOMAIN connectors :
           \E req \in ProbeOf(GetConnectorReqs, "connector_id", id) :
               DrmIoctlModeGetConnector(s, req, TRUE)
    \/ \E s \in opened, req \in ProbeOf(GetPropertyReqs, "prop_id", 1) :
           DrmIoctlModeGetProperty(s, req, TRUE)
    \/ \E s \in opened, id \in StubArgs : DrmIoctlModeSetProperty(s, id)
    \/ \E s \in opened, id \in StubArgs : DrmIoctlModeGetPropBlob(s, id)
    \/ \E s \in opened, id \in StubArgs : DrmIoctlModeCursor(s, id)
    \/ \E s \in opened, id \in StubArgs : DrmIoctlModeCursor2(s, id)
    \/ \E s \in opened, id \in StubArgs : DrmIoctlSetGamma(s, id)
    \/ \E s \in opened, d \in Dims :
           /\ Len(gems) < MaxQueryGems
           /\ DrmIoctlModeCreateDumb(s, d, TRUE, TRUE)
    \/ \E s \in opened, h \in Handles : DrmIoctlModeMapDumb(s, h, TRUE)
    \/ \E s \in opened, h \in Handles : DrmIoctlModeDestroyDumb(s, h, TRUE)
    \/ \E s \in opened, h \in Handles, f \in FbDims :
           /\ Cardinality({id \in DOMAIN objects : objects[id].kind = "fb"}) < MaxControlFbs
           /\ DrmIoctlModeAddFB(s, h, f, TRUE)
    \/ \E s \in opened, id \in DOMAIN framebuffers \cup {0} : DrmIoctlModeRmFB(s, id)
    \/ \E s \in opened, id \in DOMAIN framebuffers \cup {0}, r \in BOOLEAN :
           DrmIoctlModeDirtyFb(s, id, r)
    \/ \E s \in opened, req \in {r \in GetPlaneResReqs : \A f \in DOMAIN r : r[f] = 0} :
           DrmIoctlModeGetPlaneResources(s, req, TRUE)
    \/ \E s \in opened, id \in DOMAIN planes : DrmIoctlModeGetPlane(s, id, TRUE)
    \/ \E s \in opened, id \in DOMAIN connectors :
           \E req \in ProbeOf(ObjectGetPropsReqs, "obj_id", id) :
               DrmIoctlModeObjectGetProps(s, req, TRUE)

SpecControl == InitControl /\ [][NextControl]_vars

(***************************************************************************)
(* DrmMinor (device.rs): the device number and the devtmpfs path of a      *)
(* minor.  A path is the sequence of its characters; format!("{}", n)      *)
(* renders n in decimal.                                                   *)
(***************************************************************************)
DRM_MAJOR_ID      == 226
RENDER_MINOR_BASE == 128

Digits == <<"0", "1", "2", "3", "4", "5", "6", "7", "8", "9">>

RECURSIVE Decimal(_)
\* Display for u32: the decimal digits, most significant first
Decimal(n) ==
    IF n < 10 THEN << Digits[n + 1] >>
    ELSE Append(Decimal(n \div 10), Digits[(n % 10) + 1])

\* a faulty variant: the render minor numbered like the primary one
DrmMinor_id_no_base(minor) ==
    [major |-> DRM_MAJOR_ID, minor |-> minor.index]

\* Device::id: minor_id += RENDER_MINOR_BASE.  The sum is a u32 and leaves
\* its range only for an index of 2^32 - 128 or more; the index of a device
\* is the position of its GPU in a list.
DrmMinor_id(minor) ==
    [major |-> DRM_MAJOR_ID,
     minor |-> IF minor.type_ = "Render"
               THEN minor.index + RENDER_MINOR_BASE
               ELSE minor.index]

\* Device::devtmpfs_path: Some(path) is {path}, None is {}
devtmpfs_path(minor) ==
    CASE minor.type_ = "Primary" ->
             { <<"d","r","i","/","c","a","r","d">> \o Decimal(minor.index) }
      [] minor.type_ = "Render" ->
             { <<"d","r","i","/","r","e","n","d","e","r">>
               \o Decimal(RENDER_MINOR_BASE + minor.index) }
      [] minor.type_ = "Control" ->
             { <<"d","r","i","/","c","o","n","t","r","o","l","D">>
               \o Decimal(minor.index) }
      [] OTHER -> {}

(***************************************************************************)
(* The minor specification: a device created with some index (the position *)
(* of its GPU in the list that drm init walks), then minors of any type    *)
(* created for it.  ret holds the device index and the last minor.         *)
(***************************************************************************)
MaxDeviceIndex == 30

InitMinor ==
    /\ driver_features = {MODESET} /\ dumb_create = TRUE /\ scanout = FALSE
    /\ bringup = "new" /\ minors = {}
    /\ gems = << >>
    /\ InitRegistry
    /\ offsets = Empty /\ next_offset = 1
    /\ opened = {}
    /\ next_handle = [s \in Sessions |-> 1]
    /\ gem_table = [s \in Sessions |-> Empty]
    /\ caps = [s \in Sessions |-> NoCaps]
    /\ \E n \in 0..MaxDeviceIndex : ret = Ret("DrmDevice", 0, n, OK, Empty)
    /\ issued = << >> /\ issued_props = << >>
    /\ created = [s \in Sessions |-> 0]
    /\ destroyed = [s \in Sessions |-> {}]
    /\ pc = [t \in Threads |-> "idle"]
    /\ got = [t \in Threads |-> 0]
    /\ lock = 0

NewMinor ==
    /\ \E type_ \in DrmMinorType :
         \E minor \in {DrmMinor_new(ret.arg, type_)} :
           ret' = Ret("DrmMinor", 0, ret.arg, OK,
                      [minor |-> minor, id |-> DrmMinor_id(minor),
                       path |-> devtmpfs_path(minor)])
    /\ UNCHANGED <<regVars, devVars, gemVars, fileVars, histVars, concVars>>

SpecMinor == InitMinor /\ [][NewMinor]_vars

(***************************************************************************)
(* The property specification: GetProperty, as Probe and as Fill, on a     *)
(* table holding one property definition.  The definitions come from the   *)
(* four constructors; SignedRange, Bitmask and Object have no constructor  *)
(* and are given as PropertyKind values.                                   *)
(***************************************************************************)
LongName == "a name that is longer than thirty-two bytes"

PropertyInputs ==
    { DrmProperty_create_bool("bool", {}),
      DrmProperty_create_range("range", {}, 5, 9),
      DrmProperty_create_enum("enum", {}, << <<0, "Off">>, <<1, "On">> >>),
      DrmProperty_create_enum("long", {}, << <<7, LongName>>, <<3, "short">> >>),
      DrmProperty_create_enum("none", {}, << >>),
      DrmProperty_create("blob", {"BLOB"}),
      [DrmProperty_create("signed", {}) EXCEPT
           !.kind = "SignedRange", !.min = -5, !.max = 5, !.blob_id = 0],
      [DrmProperty_create("bits", {"BITMASK"}) EXCEPT
           !.kind = "Bitmask", !.items = << <<4, "c">>, <<1, "a">>, <<2, "b">> >>,
           !.blob_id = 0],
      [DrmProperty_create("object", {}) EXCEPT
           !.kind = "Object", !.obj_type = 7, !.blob_id = 0] }

InitProp ==
    /\ driver_features = {MODESET} /\ dumb_create = TRUE /\ scanout = FALSE
    /\ bringup = "new" /\ minors = {}
    /\ gems = << >>
    /\ planes = Empty /\ crtcs = Empty /\ encoders = Empty
    /\ connectors = Empty /\ framebuffers = Empty /\ objects = Empty
    /\ \E p \in PropertyInputs : properties = (1 :> p)
    /\ next_object_id = 0 /\ next_prop_id = 2
    /\ crtc_index = 0 /\ encoder_index = 0
    /\ InitRest

NextProp ==
    \/ BringupNext
    \/ Open(1)
    \/ \E s \in opened, req \in {r \in GetPropertyReqs : r.prop_id \in {1, 2}},
          w \in BOOLEAN :
           DrmIoctlModeGetProperty(s, req, w)

SpecProp == InitProp /\ [][NextProp]_vars

(***************************************************************************)
(* The session specification: two open files of one device, each creating, *)
(* mapping, wrapping and destroying buffers and setting a client cap.      *)
(***************************************************************************)
\* the two open files
TwoSessions == {1, 2}

NextSession ==
    \/ BringupNext
    \/ \E s \in TwoSessions : Open(s)
    \/ \E s \in opened, d \in Dims : DrmIoctlModeCreateDumb(s, d, TRUE, TRUE)
    \/ \E s \in opened, h \in Handles : DrmIoctlModeMapDumb(s, h, TRUE)
    \/ \E s \in opened, h \in Handles : DrmIoctlModeDestroyDumb(s, h, TRUE)
    \/ \E s \in opened, h \in Handles, f \in FbDims :
           /\ framebuffers = Empty
           /\ DrmIoctlModeAddFB(s, h, f, TRUE)
    \/ \E s \in opened, v \in {0, 1} : DrmIoctlSetClientCap(s, "UniversalPlane", v)

SpecSession == InitFb /\ [][NextSession]_vars

(***************************************************************************)
(* The locking specification.  Each handler of the dispatcher is reduced   *)
(* to the sequence of its lock events: acquisitions ("acq"), releases      *)
(* ("rel") and accesses ("use") of the registry Mutex (lock 0, taken with  *)
(* self.device.resources().lock()) and of the gem_table Mutex of session s *)
(* (lock s, taken inside insert_gem, lookup_gem and remove_gem).  A guard  *)
(* created in the scrutinee of a match or in the head of a for lives to    *)
(* the end of that statement; a guard bound with let lives to the end of   *)
(* its block.  Two threads run the handlers against two open files.        *)
(***************************************************************************)
Registry == 0

\* a faulty variant: the accesses go through a second guard taken while the
\* first is alive
Locked_reentered(l, n) ==
    << <<"acq", l>>, <<"acq", l>> >> \o [i \in 1..n |-> <<"use", l>>]
        \o << <<"rel", l>>, <<"rel", l>> >>

\* resources().lock() held over n accesses
Locked(l, n) ==
    << <<"acq", l>> >> \o [i \in 1..n |-> <<"use", l>>] \o << <<"rel", l>> >>

\* a faulty variant: AddFB looks the handle up under a guard that lives
\* until the framebuffer is created
LockPrograms_nested(op, s) ==
    CASE op = "AddFB" ->
            { << <<"acq", s>>, <<"use", s>>, <<"acq", Registry>>, <<"use", Registry>>,
                 <<"rel", Registry>>, <<"rel", s>> >> }
      [] OTHER -> { << >> }

\* the lock events of one call of op on session s, one sequence for each
\* path through the handler
LockPrograms(op, s) ==
    CASE op \in {"GetVersion", "SetClientCap", "SetProperty", "GetPropBlob",
                 "Cursor", "Cursor2", "SetGamma"} -> { << >> }
      [] op = "GetCap" -> { << >>, Locked(Registry, 1) }
      [] op = "GetResources" -> { Locked(Registry, 1), Locked(Registry, 2) }
      [] op \in {"GetCrtc", "GetEncoder", "GetConnector", "GetProperty",
                 "GetPlane", "ObjectGetProps"} -> { Locked(Registry, 1) }
      [] op \in {"SetCrtc", "DirtyFb"} -> { << >>, Locked(Registry, 1) }
      [] op = "AddFB" -> { Locked(s, 1), Locked(s, 1) \o Locked(Registry, 1) }
      [] op = "RmFB" -> { Locked(Registry, 1) }
      [] op = "CreateDumb" -> { << >>, Locked(s, 1) }
      [] op \in {"MapDumb", "DestroyDumb"} -> { << >>, Locked(s, 1) }
      [] op = "GetPlaneResources" ->
            { Locked(Registry, 1), Locked(Registry, 1) \o Locked(Registry, 1) }

Operations ==
    {"GetVersion", "GetCap", "SetClientCap", "GetResources", "GetCrtc", "SetCrtc",
     "Cursor", "Cursor2", "SetGamma", "GetEncoder", "GetConnector", "GetProperty",
     "SetProperty", "GetPropBlob", "AddFB", "RmFB", "DirtyFb", "CreateDumb",
     "MapDumb", "DestroyDumb", "GetPlaneResources", "GetPlane", "ObjectGetProps"}

TwoThreads == {1, 2}

\* a thread outside the dispatcher has no lock event to come
NoProgram == [todo |-> << >>, used |-> FALSE]

\* a thread enters the dispatcher
LockCall(t, s, op) ==
    /\ pc[t] = "idle"
    /\ s \in opened
    /\ \E prog \in LockPrograms(op, s) :
           got' = [got EXCEPT ![t] = [todo |-> prog, used |-> FALSE]]
    /\ pc' = [pc EXCEPT ![t] = op]
    /\ UNCHANGED <<regVars, devVars, gemVars, fileVars, histVars, lock, ret>>

\* Mutex::lock: the caller waits until the lock is free.  A thread that
\* asks for a lock it holds itself waits for ever.
LockAcquire(t) ==
    /\ pc[t] # "idle" /\ got[t].todo # << >>
    /\ Head(got[t].todo)[1] = "acq"
    /\ lock[Head(got[t].todo)[2]] = 0
    /\ lock' = [lock EXCEPT ![Head(got[t].todo)[2]] = t]
    /\ got' = [got EXCEPT ![t].todo = Tail(@)]
    /\ UNCHANGED <<regVars, devVars, gemVars, fileVars, histVars, pc, ret>>

\* an access to the registry or to the handle table
LockUse(t) ==
    /\ pc[t] # "idle" /\ got[t].todo # << >>
    /\ Head(got[t].todo)[1] = "use"
    /\ got' = [got EXCEPT ![t].todo = Tail(@),
                          ![t].used = @ \/ Head(got[t].todo)[2] = Registry]
    /\ UNCHANGED <<regVars, devVars, gemVars, fileVars, histVars, pc, lock, ret>>

\* the guard is dropped
LockRelease(t) ==
    /\ pc[t] # "idle" /\ got[t].todo # << >>
    /\ Head(got[t].todo)[1] = "rel"
    /\ lock' = [lock EXCEPT ![Head(got[t].todo)[2]] = 0]
    /\ got' = [got EXCEPT ![t].todo = Tail(@)]
    /\ UNCHANGED <<regVars, devVars, gemVars, fileVars, histVars, pc, ret>>

\* the handler returns
LockReturn(t) ==
    /\ pc[t] # "idle" /\ got[t].todo = << >>
    /\ pc' = [pc EXCEPT ![t] = "idle"]
    /\ got' = [got EXCEPT ![t] = NoProgram]
    /\ UNCHANGED <<regVars, devVars, gemVars, fileVars, histVars, lock, ret>>

InitLock ==
    /\ driver_features = {MODESET} /\ dumb_create = TRUE /\ scanout = FALSE
    /\ bringup = "new" /\ minors = {}
    /\ gems = << >>
    /\ InitRegistry
    /\ offsets = Empty /\ next_offset = 1
    /\ opened = {}
    /\ next_handle = [s \in Sessions |-> 1]
    /\ gem_table = [s \in Sessions |-> Empty]
    /\ caps = [s \in Sessions |-> NoCaps]
    /\ ret = NoRet
    /\ issued = << >> /\ issued_props = << >>
    /\ created = [s \in Sessions |-> 0]
    /\ destroyed = [s \in Sessions |-> {}]
    /\ pc = [t \in Threads |-> "idle"]
    /\ got = [t \in Threads |-> NoProgram]
    /\ lock = [l \in {Registry} \cup Sessions |-> 0]

NextLock ==
    \/ BringupNext
    \/ \E s \in TwoSessions : Open(s)
    \/ \E t \in TwoThreads, s \in opened, op \in Operations : LockCall(t, s, op)
    \/ \E t \in TwoThreads : LockAcquire(t)
    \/ \E t \in TwoThreads : LockUse(t)
    \/ \E t \in TwoThreads : LockRelease(t)
    \/ \E t \in TwoThreads : LockReturn(t)

SpecLock == InitLock /\ [][NextLock]_vars

(***************************************************************************)
(* CreateDumb called by several threads on one open file.  The handler     *)
(* holds no lock across its steps: dumb_create allocates the buffer,       *)
(* next_handle is one fetch_add on the AtomicU32, insert_gem locks the     *)
(* handle table for the one insertion.  got[t] is <<handle, buffer>>, the  *)
(* handle being 0 until next_handle has returned.  A thread whose call     *)
(* returned Ok stays at "created" with the handle it was given.            *)
(***************************************************************************)
\* CreateDumb up to dumb_create(width, height, bpp)?
CreateDumbAllocate(t, s, d, alloc_ok) ==
    /\ s \in opened /\ pc[t] = "idle"
    /\ IF ~check_feature(MODESET) THEN Fail("CreateDumb", s, d, EOPNOTSUPP)
       ELSE IF ~dumb_create THEN Fail("CreateDumb", s, d, ENOENT)
       ELSE IF ~alloc_ok THEN Fail("CreateDumb", s, d, ENOMEM)
       ELSE
        /\ Len(gems) < MaxGems
        /\ gems' = Append(gems, dumb_create_impl(d.width, d.height, d.bpp))
        /\ got' = [got EXCEPT ![t] = <<0, Len(gems) + 1>>]
        /\ pc' = [pc EXCEPT ![t] = "create_allocated"]
        /\ UNCHANGED <<regVars, devVars, offsets, next_offset, fileVars,
                       histVars, lock, ret>>

\* let handle = self.next_handle();
CreateDumbNextHandle(t, s) ==
    /\ s \in opened /\ pc[t] = "create_allocated"
    /\ got' = [got EXCEPT ![t] = <<next_handle[s], @[2]>>]
    /\ next_handle' = [next_handle EXCEPT ![s] = fetch_add(@)]
    /\ pc' = [pc EXCEPT ![t] = "create_numbered"]
    /\ UNCHANGED <<regVars, devVars, gemVars, opened, gem_table, caps,
                   histVars, lock, ret>>

\* self.insert_gem(handle, gem); cmd.write(&user_data)?; Ok(0)
CreateDumbInsert(t, s, write_ok) ==
    /\ s \in opened /\ pc[t] = "create_numbered"
    /\ gem_table' = insert_gem(s, got[t][1], got[t][2])
    /\ IF write_ok
       THEN /\ ret' = Ret("CreateDumb", s, got[t][1], OK,
                          [handle |-> got[t][1], pitch |-> gems[got[t][2]].pitch,
                           size |-> gems[got[t][2]].size])
            /\ created' = [created EXCEPT ![s] = @ + 1]
            /\ pc' = [pc EXCEPT ![t] = "created"]
       ELSE /\ ret' = Ret("CreateDumb", s, got[t][1], EFAULT, Empty)
            /\ created' = created
            /\ pc' = [pc EXCEPT ![t] = "idle"]
    /\ UNCHANGED <<regVars, devVars, gemVars, opened, next_handle, caps,
                   issued, issued_props, destroyed, got, lock>>

NextCreate ==
    \/ BringupNext
    \/ Open(1)
    \/ \E t \in Threads, s \in opened, d \in Dims, a \in BOOLEAN :
           CreateDumbAllocate(t, s, d, a)
    \/ \E t \in Threads, s \in opened : CreateDumbNextHandle(t, s)
    \/ \E t \in Threads, s \in opened, w \in BOOLEAN : CreateDumbInsert(t, s, w)

SpecCreate == InitFb /\ [][NextCreate]_vars

(***************************************************************************)
(* The locking specification under fair scheduling.  A thread inside a     *)
(* handler keeps running (weak fairness of its accesses, releases and      *)
(* return: hooks and user-memory copies terminate), and a thread that      *)
(* waits for a lock which is free again and again eventually gets it       *)
(* (strong fairness of the acquisition).                                   *)
(***************************************************************************)
LockFairness ==
    \A t \in TwoThreads :
        /\ WF_vars(LockUse(t))
        /\ WF_vars(LockRelease(t))
        /\ WF_vars(LockReturn(t))
        /\ SF_vars(LockAcquire(t))

SpecLockFair == InitLock /\ [][NextLock]_vars /\ LockFairness

(***************************************************************************)
(* The bring-up specification.  A device of any driver is brought up by    *)
(* one of the two SimpleDrmDevice implementations of the repository: the   *)
(* kernel one (new, then init, then drm_dev_register, any of whose         *)
(* char::register calls may fail) or the sysfb one, whose new creates the  *)
(* four objects in a DrmModeConfig, calls init_standard_properties and     *)
(* hands the registry to DrmDevice::new.  Files are then opened and the    *)
(* registry is queried.                                                    *)
(***************************************************************************)
BringupFeatureSets == SUBSET {MODESET, RENDER, COMPUTE_ACCEL}

InitBringup == InitDevice(BringupFeatureSets, BOOLEAN)

\* sysfb SimpleDrmDevice::new
SysfbPlane ==
    /\ Bringup("new", "sysfb_plane") /\ DrmPlane_init("Primary")
    /\ UNCHANGED minors

SysfbCrtc ==
    /\ Bringup("sysfb_plane", "sysfb_crtc")
    /\ \E p \in DOMAIN planes : DrmCrtc_init_with_planes(p)
    /\ UNCHANGED minors

SysfbEncoder ==
    /\ Bringup("sysfb_crtc", "sysfb_encoder")
    /\ DrmEncoder_init_with_crtcs(DOMAIN crtcs)
    /\ UNCHANGED minors

SysfbConnector ==
    /\ Bringup("sysfb_encoder", "sysfb_connector")
    /\ DrmConnector_init_with_encoder({"1280x800"}, DOMAIN encoders)
    /\ UNCHANGED minors

\* mode_config.init_standard_properties(); ... DrmDevice::new(...)
SysfbStandardProperties ==
    /\ Bringup("sysfb_connector", "sysfb_device")
    /\ UNCHANGED <<regVars, issued, issued_props, minors>>

\* drm_dev_register returns at the first char::register that fails; the
\* minors registered before it stay registered
drm_dev_register_fails ==
    \E n \in 0..(Len(MinorTypesOf(driver_features)) - 1) :
        drm_dev_register_upto(n, "register_failed")

NextBringup ==
    \/ BringupNext
    \/ SysfbPlane
    \/ SysfbCrtc
    \/ SysfbEncoder
    \/ SysfbConnector
    \/ SysfbStandardProperties
    \/ drm_dev_register_fails
    \/ Open(1)
    \/ \E s \in opened, id \in DOMAIN objects \cup {next_object_id} :
           DrmIoctlModeGetPlane(s, id, TRUE)

SpecBringup == InitBringup /\ [][NextBringup]_vars

(***************************************************************************)
(* DestroyDumb called by two threads on one open file, in the steps of     *)
(* the MapDumb and DestroyDumb specification above.                        *)
(***************************************************************************)
NextDestroy ==
    \/ BringupNext
    \/ Open(1)
    \/ \E s \in opened, d \in Dims : DrmIoctlModeCreateDumb(s, d, TRUE, TRUE)
    \/ \E t \in TwoThreads, s \in opened, h \in Handles : DestroyDumbRemove(t, s, h)
    \/ \E t \in TwoThreads, s \in opened, r \in BOOLEAN : DestroyDumbRelease(t, s, r)
    \/ \E t \in TwoThreads, s \in opened : DestroyDumbRemoveOffset(t, s)

SpecDestroy == InitFb /\ [][NextDestroy]_vars

(***************************************************************************)
(* The framebuffer-removal specification: buffers are created, mapped and  *)
(* wrapped in framebuffers through one open file, every collaborator       *)
(* succeeding, and framebuffers are removed by any id.                     *)
(***************************************************************************)
NextRmFb ==
    \/ BringupNext
    \/ Open(1)
    \/ \E s \in opened, d \in Dims : DrmIoctlModeCreateDumb(s, d, TRUE, TRUE)
    \/ \E s \in opened, h \in Handles : DrmIoctlModeMapDumb(s, h, TRUE)
    \/ \E s \in opened, h \in Handles, f \in FbDims :
           DrmIoctlModeAddFB(s, h, f, TRUE)
    \/ \E s \in opened, id \in DOMAIN objects \cup {next_object_id} :
           DrmIoctlModeRmFB(s, id)

SpecRmFb == InitFb /\ [][NextRmFb]_vars

(***************************************************************************)
(* Properties of the dumb-buffer life cycle.                               *)
(***************************************************************************)
\* C3 (as the specification states it): within one session the successful
\* CreateDumb calls return the handles 1, 2, 3, ... in call order, so the
\* k-th successful call returns k; and a returned handle is above every
\* handle the session was given before.
C3_HandlesCountInCallOrder ==
    (ret.op = "CreateDumb" /\ ret.errno = OK)
        => /\ ret.out.handle = created[ret.s]
           /\ ret.out.handle < next_handle[ret.s]

\* C5: after DestroyDumb(h) has succeeded in a session, a MapDumb(h) of the
\* same session fails with NotFound (while the handle counter has not
\* wrapped), and h names no buffer of the session any more.
C5_MapAfterDestroyNotFound ==
    /\ (ret.op = "MapDumb" /\ ret.arg \in destroyed[ret.s]) => ret.errno = ENOENT
    /\ \A s \in Sessions : destroyed[s] \cap DOMAIN gem_table[s] = {}

\* a MapDumb of a destroyed handle has been answered while the session
\* still holds another buffer
C5_Witness ==
    /\ ret.op = "MapDumb" /\ ret.arg \in destroyed[ret.s]
    /\ ret.errno = ENOENT
    /\ DOMAIN gem_table[ret.s] # {}

C7_DestroyReleasesOnce ==
    [][ \A s \in Sessions, h \in Handles, r \in BOOLEAN :
          (DrmIoctlModeDestroyDumb(s, h, r) /\ ret'.errno = OK)
             => /\ lookup_gem(s, h) # {}
                /\ h \notin DOMAIN gem_table'[s]
                /\ \A g \in lookup_gem(s, h) :
                      /\ gems'[g].release_calls = gems[g].release_calls + 1
                      /\ \A o \in DOMAIN offsets' : offsets'[o] # g
                /\ \A g \in (1..Len(gems)) \ lookup_gem(s, h) :
                      gems'[g] = gems[g] ]_vars

\* a buffer that had been mapped twice was destroyed: both offsets are gone
C7_Witness ==
    /\ ret.op = "DestroyDumb" /\ ret.errno = OK
    /\ Len(gems) = 1 /\ gems[1].release_calls = 1
    /\ next_offset = 3 /\ offsets = Empty

(***************************************************************************)
(* Properties of the capability calls.                                     *)
(***************************************************************************)
\* C9 (as the specification states it): GetCap and SetClientCap are gated
\* on no device feature and nothing is rejected for lack of ATOMIC: GetCap
\* of a known capability, and SetClientCap of a known capability with a
\* value in its range, never return Unsupported.
C9_CapsNeverUnsupported ==
    /\ (ret.op = "GetCap" /\ ret.arg \in DrmCapabilities) => ret.errno # EOPNOTSUPP
    /\ (ret.op = "SetClientCap" /\ ret.arg.capability \in ClientCaps
          /\ ret.arg.value \in (IF ret.arg.capability = "Atomic" THEN 0..2 ELSE 0..1))
         => ret.errno # EOPNOTSUPP

\* C9 (amended): GetCap of a known capability returns Unsupported exactly
\* when the device lacks MODESET and the capability is not one of
\* TimestampMonotonic, Prime, SyncObj, SyncObjTimeline; SetClientCap of a
\* known capability returns Unsupported exactly when the device lacks
\* MODESET, or the capability is Atomic and the device lacks ATOMIC, or the
\* capability is the cursor-plane hotspot and the device lacks
\* CURSOR_HOTSPOT.
C9_CapsGating ==
    /\ (ret.op = "GetCap" /\ ret.arg \in DrmCapabilities)
         => (ret.errno = EOPNOTSUPP
               <=> (MODESET \notin driver_features
                      /\ ret.arg \notin {"TimestampMonotonic", "Prime",
                                         "SyncObj", "SyncObjTimeline"}))
    /\ (ret.op = "SetClientCap" /\ ret.arg.capability \in ClientCaps)
         => (ret.errno = EOPNOTSUPP
               <=> \/ MODESET \notin driver_features
                   \/ ret.arg.capability = "Atomic" /\ ATOMIC \notin driver_features
                   \/ ret.arg.capability = "CursorPlaneHostport"
                        /\ CURSOR_HOTSPOT \notin driver_features)

\* SetClientCap(Atomic, 1) was refused as Unsupported on a device that has
\* MODESET but not ATOMIC
C9_Witness ==
    /\ ret.op = "SetClientCap" /\ ret.errno = EOPNOTSUPP
    /\ ret.arg = [capability |-> "Atomic", value |-> 1]
    /\ driver_features = {MODESET}

\* C10: whatever the flags were before, after a successful
\* SetClientCap(Atomic, 1) the session has atomic and universal-planes
\* true, and after a successful SetClientCap(Atomic, 2) it has atomic,
\* universal-planes and aspect-ratio-allowed true.
C10_AtomicCascade ==
    (ret.op = "SetClientCap" /\ ret.errno = OK /\ ret.arg.capability = "Atomic")
      => /\ ret.arg.value >= 1
             => caps[ret.s].atomic /\ caps[ret.s].universal_planes
         /\ ret.arg.value = 2 => caps[ret.s].aspect_ratio_allowed

\* SetClientCap(Atomic, 2) succeeded in a session whose other flags had
\* been set before
C10_Witness ==
    /\ ret.op = "SetClientCap" /\ ret.errno = OK
    /\ ret.arg = [capability |-> "Atomic", value |-> 2]
    /\ caps[ret.s].atomic /\ caps[ret.s].universal_planes
    /\ caps[ret.s].aspect_ratio_allowed
    /\ caps[ret.s].writeback_connectors /\ caps[ret.s].stereo_allowed

\* the values a capability accepts: 0/1, and 0/1/2 for Atomic
InRange(cap, v) == v \in (IF cap = "Atomic" THEN 0..2 ELSE 0..1)

\* a step that is a SetClientCap call of session s
SetClientCapStep(s, cap, v) ==
    /\ ret' = Ret("SetClientCap", s, [capability |-> cap, value |-> v],
                  ret'.errno, Empty)
    /\ DrmIoctlSetClientCap(s, cap, v)

\* C11 (as the specification states it): SetClientCap with a value outside
\* the capability's range, or with an unknown capability id, fails with
\* InvalidArgument and leaves the six flags of the session unchanged.
C11_OutOfRangeInvalidArgument ==
    [][\A s \in Sessions, cap \in ClientCaps \cup {"Unknown"}, v \in ClientCapValues :
         (SetClientCapStep(s, cap, v) /\ (cap \notin ClientCaps \/ ~InRange(cap, v)))
           => ret'.errno = EINVAL /\ caps' = caps]_vars

\* C11 (amended): such a call always fails and leaves the six flags
\* unchanged; the error is Unsupported when the device lacks MODESET, when
\* the capability is Atomic and the device lacks ATOMIC, or when it is the
\* cursor-plane hotspot and the device lacks CURSOR_HOTSPOT, and
\* InvalidArgument otherwise.
C11_OutOfRangeRejected ==
    [][\A s \in Sessions, cap \in ClientCaps \cup {"Unknown"}, v \in ClientCapValues :
         (SetClientCapStep(s, cap, v) /\ (cap \notin ClientCaps \/ ~InRange(cap, v)))
           => /\ caps' = caps
              /\ ret'.errno =
                   IF \/ MODESET \notin driver_features
                      \/ cap = "Atomic" /\ ATOMIC \notin driver_features
                      \/ cap = "CursorPlaneHostport"
                           /\ CURSOR_HOTSPOT \notin driver_features
                   THEN EOPNOTSUPP ELSE EINVAL]_vars

\* SetClientCap(Atomic, 3) was refused as InvalidArgument in a session
\* whose atomic, universal-planes and aspect-ratio flags had been set
C11_Witness ==
    /\ ret.op = "SetClientCap" /\ ret.errno = EINVAL
    /\ ret.arg = [capability |-> "Atomic", value |-> 3]
    /\ caps[ret.s].atomic /\ caps[ret.s].universal_planes
    /\ caps[ret.s].aspect_ratio_allowed

\* C12: SetClientCap of WritebackConnectors or of the cursor-plane hotspot
\* issued while the session's atomic flag is false is rejected and leaves
\* every flag of the session unchanged, and no step turns the
\* writeback-connectors or the virtualized-cursor-plane flag from false to
\* true in a session whose atomic flag is false.
C12_NeedsAtomic ==
    [][\A s \in Sessions :
         /\ \A cap \in {"WritebackConnectors", "CursorPlaneHostport"},
               v \in ClientCapValues :
              (SetClientCapStep(s, cap, v) /\ ~caps[s].atomic)
                => ret'.errno # OK /\ caps' = caps
         /\ (s \in opened /\ ~caps[s].atomic)
              => /\ caps'[s].writeback_connectors => caps[s].writeback_connectors
                 /\ caps'[s].supports_virtualized_cursor_plane
                      => caps[s].supports_virtualized_cursor_plane]_vars

\* SetClientCap(WritebackConnectors, 1) was refused in a session that had
\* not enabled atomic, on a device with MODESET and ATOMIC, and the flag
\* stayed false
C12_Witness ==
    /\ ret.op = "SetClientCap" /\ ret.errno = EINVAL
    /\ ret.arg = [capability |-> "WritebackConnectors", value |-> 1]
    /\ ATOMIC \in driver_features
    /\ ~caps[ret.s].atomic /\ ~caps[ret.s].writeback_connectors
    /\ caps[ret.s].stereo_allowed

(***************************************************************************)
(* Properties of the two-phase queries.  The call a state is left by is    *)
(* in ret; a query changes nothing, so the tables of that state are the    *)
(* tables the call saw.                                                    *)
(***************************************************************************)
\* the object a request names is in its table (requests that name none
\* always are)
NamedEntryExists(op, req) ==
    CASE op = "GetConnector"   -> req.connector_id \in DOMAIN connectors
      [] op = "GetProperty"    -> req.prop_id \in DOMAIN properties
      [] op = "ObjectGetProps" -> req.obj_id \in DOMAIN objects
      [] OTHER                 -> TRUE

\* the count fields a Probe has to report in the current state
ProbeCountsAreCurrent(op, req, f) ==
    CASE op = "GetVersion" ->
            /\ f.name_len = 9 /\ f.desc_len = 50 /\ f.date_len = 10
      [] op = "GetResources" ->
            /\ f.count_fbs = Cardinality(DOMAIN framebuffers)
            /\ f.count_crtcs = Cardinality(DOMAIN crtcs)
            /\ f.count_connectors = Cardinality(DOMAIN connectors)
            /\ f.count_encoders = Cardinality(DOMAIN encoders)
      [] op = "GetConnector" ->
            /\ f.count_modes = Cardinality(connectors[req.connector_id].modes)
            /\ f.count_props =
                 Cardinality(DOMAIN connectors[req.connector_id].properties)
            /\ f.count_encoders =
                 Cardinality(connectors[req.connector_id].possible_encoders_mask)
      [] op = "GetProperty" ->
            /\ f.count_values = prop_count_values(properties[req.prop_id])
            /\ f.count_enum_blobs = prop_count_enum_blobs(properties[req.prop_id])
      [] op = "GetPlaneResources" ->
            f.count_planes = Cardinality(DOMAIN planes)
      [] op = "ObjectGetProps" ->
            f.count_props = Cardinality(DOMAIN objects[req.obj_id].properties)

\* C13: a request of a two-phase operation whose output pointers are all
\* zero is a Probe: whatever its count fields held, the call writes no
\* array element, it fails only if the request structure cannot be copied
\* back (a fault of the caller's memory), and when it succeeds the count
\* fields it returns are the current counts.  (The device has MODESET and
\* the connector, property or object the request names exists.)
C13_ProbeReportsCounts ==
    (/\ ret.op \in TwoPhaseOps
     /\ is_first_call(ret.op, ret.arg)
     /\ NamedEntryExists(ret.op, ret.arg))
      => /\ ret.errno \in {OK, EFAULT}
         /\ ret.out.writes = << >>
         /\ ret.errno = OK
              => ProbeCountsAreCurrent(ret.op, ret.arg, ret.out.fields)

\* a GetResources Probe whose count fields were all 0 succeeded and
\* reported one framebuffer, after a second framebuffer had been removed
C13_Witness ==
    /\ ret.op = "GetResources" /\ ret.errno = OK
    /\ is_first_call("GetResources", ret.arg)
    /\ ret.arg.count_fbs = 0 /\ ret.arg.count_crtcs = 0
    /\ ret.out.fields.count_fbs = 1
    /\ Cardinality({id \in DOMAIN objects : objects[id].kind = "fb"}) = 2
    /\ ret.out.writes = << >>

\* the caller's capacity for some array is below the current count
SomeCapacityShort(op, req) ==
    CASE op = "GetVersion" ->
            \/ req.name_len < 9 \/ req.desc_len < 50 \/ req.date_len < 10
      [] op = "GetResources" ->
            \/ req.count_fbs < Cardinality(DOMAIN framebuffers)
            \/ req.count_crtcs < Cardinality(DOMAIN crtcs)
            \/ req.count_connectors < Cardinality(DOMAIN connectors)
            \/ req.count_encoders < Cardinality(DOMAIN encoders)
      [] op = "GetConnector" ->
            \/ req.count_modes < Cardinality(connectors[req.connector_id].modes)
            \/ req.count_props <
                 Cardinality(DOMAIN connectors[req.connector_id].properties)
            \/ req.count_encoders <
                 Cardinality(connectors[req.connector_id].possible_encoders_mask)
      [] op = "GetProperty" ->
            \/ req.count_values < prop_count_values(properties[req.prop_id])
            \/ req.count_enum_blobs < prop_count_enum_blobs(properties[req.prop_id])
      [] op = "GetPlaneResources" ->
            req.count_planes < Cardinality(DOMAIN planes)
      [] op = "ObjectGetProps" ->
            req.count_props < Cardinality(DOMAIN objects[req.obj_id].properties)

\* C14 (as the specification states it): a Fill of a two-phase operation
\* whose capacity for any one array is below the current count fails, and
\* no element of any array has been written to the caller's memory.
C14_ShortFillWritesNothing ==
    (/\ ret.op \in TwoPhaseOps
     /\ ~is_first_call(ret.op, ret.arg)
     /\ NamedEntryExists(ret.op, ret.arg)
     /\ SomeCapacityShort(ret.op, ret.arg))
      => ret.errno # OK /\ ret.out.writes = << >>

\* the requests keep their arrays RegionSize bytes apart
RegionSize == 1000

\* the <<address, value>> pairs a call wrote inside the region of ptr
WrittenAt(writes, ptr) ==
    {writes[k] : k \in {j \in DOMAIN writes :
                          writes[j][1] >= ptr /\ writes[j][1] < ptr + RegionSize}}

\* the region of ptr holds exactly the elements of S, one in each of the
\* slots ptr, ptr + size, ..., and nothing else
HoldsArray(writes, ptr, size, S) ==
    LET W == WrittenAt(writes, ptr) IN
    /\ {w[2] : w \in W} = S
    /\ {w[1] : w \in W} = {ptr + i * size : i \in 0..(Cardinality(S) - 1)}
    /\ Cardinality(W) = Cardinality(S)

\* C15 (as the specification states it): after a successful Fill every
\* array sits in the region that starts at its own pointer, element i at
\* pointer + i * element_size: for GetResources the connector, CRTC,
\* encoder and framebuffer ids at connector_id_ptr, crtc_id_ptr,
\* encoder_id_ptr and fb_id_ptr, for GetPlaneResources the plane ids at
\* plane_id_ptr, and nothing is written through another array's pointer.
C15_ArraysAtOwnPointers ==
    /\ (ret.op = "GetResources" /\ ret.errno = OK
          /\ ~is_first_call(ret.op, ret.arg))
         => LET w == ret.out.writes IN
            /\ HoldsArray(w, ret.arg.connector_id_ptr, SIZE_U32, DOMAIN connectors)
            /\ HoldsArray(w, ret.arg.crtc_id_ptr, SIZE_U32, DOMAIN crtcs)
            /\ HoldsArray(w, ret.arg.encoder_id_ptr, SIZE_U32, DOMAIN encoders)
            /\ HoldsArray(w, ret.arg.fb_id_ptr, SIZE_U32, DOMAIN framebuffers)
    /\ (ret.op = "GetPlaneResources" /\ ret.errno = OK
          /\ ~is_first_call(ret.op, ret.arg))
         => HoldsArray(ret.out.writes, ret.arg.plane_id_ptr, SIZE_U32, DOMAIN planes)

IoctlStep == opened' = opened /\ bringup' = bringup /\ opened # {}

\* C17 (as the specification states it): a control operation that returns
\* a failure leaves the registry, the session's handle table and handle
\* counter, the device offset table and the client-cap flags as they were
\* before the call.
C17_FailureChangesNothing ==
    [][(IoctlStep /\ ret'.errno # OK)
         => UNCHANGED <<regVars, gem_table, next_handle, offsets, next_offset,
                        caps>>]_vars

\* the operations that look up the id or the handle their request names
LookupOps ==
    {"GetCrtc", "GetEncoder", "GetConnector", "GetPlane", "GetProperty",
     "ObjectGetProps", "MapDumb", "AddFB"}

\* the id or handle of the request has no entry in the table the operation
\* looks it up in
NamedEntryMissing(op, s, arg) ==
    CASE op = "GetCrtc"        -> arg \notin DOMAIN crtcs
      [] op = "GetEncoder"     -> arg \notin DOMAIN encoders
      [] op = "GetConnector"   -> arg.connector_id \notin DOMAIN connectors
      [] op = "GetPlane"       -> arg \notin DOMAIN planes
      [] op = "GetProperty"    -> arg.prop_id \notin DOMAIN properties
      [] op = "ObjectGetProps" -> arg.obj_id \notin DOMAIN objects
      [] op = "MapDumb"        -> arg \notin DOMAIN gem_table[s]
      [] op = "AddFB"          -> arg \notin DOMAIN gem_table[s]

\* C18 (as the specification states it): GetCrtc, GetEncoder, GetConnector,
\* GetPlane, GetProperty, ObjectGetProperties, MapDumb and AddFB fail with
\* NotFound when the id or the buffer handle of the request has no
\* matching entry, and then change no state.
C18_MissingEntryNotFound ==
    [][(/\ IoctlStep
        /\ ret'.op \in LookupOps
        /\ NamedEntryMissing(ret'.op, ret'.s, ret'.arg))
         => /\ ret'.errno = ENOENT
            /\ UNCHANGED <<regVars, gemVars, fileVars>>]_vars

\* C19 (as the specification states it): on a device whose driver has no
\* dumb-buffer creation hook, CreateDumb is rejected with Unsupported and
\* MapDumb is rejected whatever the handle, and no handle number is
\* consumed, no handle inserted and no device offset created.
C19_NoHookUnsupported ==
    ~dumb_create
      => /\ ret.op = "CreateDumb" => ret.errno = EOPNOTSUPP
         /\ ret.op = "MapDumb" => ret.errno # OK
         /\ \A s \in Sessions : next_handle[s] = 1 /\ gem_table[s] = Empty
         /\ offsets = Empty /\ next_offset = 1

\* C20 (as the specification states it): in every reachable state, under
\* any interleaving of CreateDumb, MapDumb and DestroyDumb, every offset in
\* the device offset table resolves to a buffer whose backend has not been
\* released.
C20_OffsetsResolveLive ==
    \A off \in DOMAIN offsets :
        \A g \in lookup_offset(off) : ~gems[g].released

(***************************************************************************)
(* Properties of the CRTC and encoder indices.                             *)
(***************************************************************************)
\* the indices of one kind, listed by ascending object id (creation order),
\* are 0, 1, 2, ...
InCreationOrder(table) ==
    \A id \in DOMAIN table :
        table[id].index = Cardinality({o \in DOMAIN table : o < id})

\* C21: in every reachable registry state each CRTC's index is unique among
\* the CRTCs and each encoder's index unique among the encoders, the indices
\* of each kind are 0, 1, 2, ... in creation order, and no CRTC or encoder
\* index exceeds 31, however many objects are created.
C21_IndicesUniqueOrderedBelow32 ==
    /\ \A a, b \in DOMAIN crtcs : a # b => crtcs[a].index # crtcs[b].index
    /\ \A a, b \in DOMAIN encoders :
           a # b => encoders[a].index # encoders[b].index
    /\ InCreationOrder(crtcs)
    /\ InCreationOrder(encoders)
    /\ \A c \in DOMAIN crtcs : crtcs[c].index <= 31
    /\ \A e \in DOMAIN encoders : encoders[e].index <= 31

(***************************************************************************)
(* Properties of framebuffer removal and of the static mode objects.       *)
(***************************************************************************)
\* a step taken by the named ioctl
StepOf(op) == ret'.op = op /\ ret' # ret

\* C22: an RmFB call removes only the framebuffer entry it names: no
\* buffer's backend release is invoked, and every session handle and every
\* device offset resolves to the same, equally live buffer as before the
\* call; the object table and the id counter are left alone as well.
C22_RmFBRemovesOnlyEntry ==
    [][StepOf("RmFB") =>
          /\ framebuffers' = remove(framebuffers, ret'.arg)
          /\ gems' = gems
          /\ \A s \in opened, h \in Handles : lookup_gem(s, h)' = lookup_gem(s, h)
          /\ \A off \in 1..(MaxOffsets + 1) :
                 lookup_offset(off)' = lookup_offset(off)
          /\ objects' = objects
          /\ next_object_id' = next_object_id]_vars

\* RmFB has removed the one framebuffer ever created, which wrapped the one
\* buffer, while a handle and an offset still name that buffer
C22_Witness ==
    /\ ret.op = "RmFB" /\ ret.errno = OK
    /\ ret.arg \in DOMAIN objects /\ objects[ret.arg].kind = "fb"
    /\ ret.arg \notin DOMAIN framebuffers
    /\ Len(gems) = 1 /\ ~gems[1].released /\ gems[1].release_calls = 0
    /\ \E h \in DOMAIN gem_table[1] : gem_table[1][h] = 1
    /\ \E off \in DOMAIN offsets : offsets[off] = 1

\* the mode objects a driver creates during bring-up, and their counters
StaticObjects == <<planes, crtcs, encoders, connectors, crtc_index, encoder_index>>

\* C23: once the device is registered (so in every step an open file can
\* take) the tables of connectors, encoders, CRTCs and planes and every
\* field of their objects stay as bring-up left them, and so do the
\* property table and its counter: only the framebuffer table, the object
\* table and the object-id counter of the registry can change.
C23_ModeObjectsStatic ==
    [][Registered => /\ UNCHANGED StaticObjects
                     /\ UNCHANGED <<properties, next_prop_id>>]_vars

\* SetCrtc has copied a framebuffer created by AddFB to the scanout surface
\* of a device whose bring-up created one object of each kind
C23_Witness ==
    /\ ret.op = "SetCrtc" /\ ret.errno = OK
    /\ ret.arg \in DOMAIN framebuffers
    /\ planes # Empty /\ crtcs # Empty /\ encoders # Empty /\ connectors # Empty

(***************************************************************************)
(* Properties of the minors of a device.                                   *)
(***************************************************************************)
RECURSIVE ParseDecimal(_)
\* the number a sequence of decimal digits denotes; -1 when it is none
ParseDecimal(str) ==
    IF str = << >> THEN -1
    ELSE LET last == str[Len(str)]
             d == IF \E i \in 1..10 : Digits[i] = last
                  THEN (CHOOSE i \in 1..10 : Digits[i] = last) - 1 ELSE -1
             hi == IF Len(str) = 1 THEN 0
                   ELSE ParseDecimal(SubSeq(str, 1, Len(str) - 1))
         IN IF d < 0 \/ hi < 0 \/ (Len(str) > 1 /\ str[1] = "0") THEN -1
            ELSE 10 * hi + d

\* path is the given prefix followed by the canonical decimal form of n
IsPath(path, prefix, n) ==
    /\ Len(path) > Len(prefix)
    /\ SubSeq(path, 1, Len(prefix)) = prefix
    /\ ParseDecimal(SubSeq(path, Len(prefix) + 1, Len(path))) = n

WroteAt(w, addr, val) ==
    /\ \E k \in DOMAIN w : w[k][1] = addr /\ w[k][2] = val
    /\ Cardinality({k \in DOMAIN w : w[k][1] = addr}) = 1

\* the counts the specification gives for a property kind with n entries
CountsOfKind(kind, n) ==
    [count_values |-> CASE kind \in {"Range", "SignedRange"} -> 2
                        [] kind \in {"Enum", "Bitmask"} -> n
                        [] OTHER -> 1,
     count_enum_blobs |-> CASE kind \in {"Enum", "Bitmask"} -> n
                            [] kind = "Blob" -> 1
                            [] OTHER -> 0]

\* a Probe of GetProperty reports the counts of the kind
ProbeReportsKindCounts ==
    (ret.op = "GetProperty" /\ ret.errno = OK /\ is_first_call(ret.op, ret.arg))
      => LET prop == properties[ret.arg.prop_id]
             n == CountsOfKind(prop.kind, Len(prop.items))
         IN  /\ ret.out.fields.count_values = n.count_values
             /\ ret.out.fields.count_enum_blobs = n.count_enum_blobs
             /\ prop_count_values(prop) = n.count_values
             /\ prop_count_enum_blobs(prop) = n.count_enum_blobs

\* a Fill of GetProperty writes the bounds of a range at the values pointer,
\* and value i of an enumeration at values pointer + 8 * i with a record for
\* entry i at enum pointer + 40 * i; NameAsWritten(name) is the name field
\* such a record is to hold
FillWritesDefinition(NameAsWritten(_)) ==
    (ret.op = "GetProperty" /\ ret.errno = OK /\ ~is_first_call(ret.op, ret.arg))
      => LET prop == properties[ret.arg.prop_id]
             w == ret.out.writes
             vp == ret.arg.values_ptr
             ep == ret.arg.enum_blob_ptr
         IN  /\ prop.kind \in {"Range", "SignedRange"} =>
                   /\ WroteAt(w, vp, prop.min) /\ WroteAt(w, vp + 8, prop.max)
                   /\ Len(w) = 2
             /\ prop.kind \in {"Enum", "Bitmask"} =>
                   /\ \A i \in 1..Len(prop.items) :
                        /\ WroteAt(w, vp + 8 * (i - 1), prop.items[i][1])
                        /\ WroteAt(w, ep + 40 * (i - 1),
                                   [value |-> prop.items[i][1],
                                    name |-> NameAsWritten(prop.items[i][2])])
                   /\ Len(w) = 2 * Len(prop.items)
             /\ properties[1] = DrmProperty_create_bool("bool", {}) =>
                   w = << <<vp, 0>>, <<vp + 8, 1>> >>
             /\ properties[1] = DrmProperty_create_range("range", {}, 5, 9) =>
                   w = << <<vp, 5>>, <<vp + 8, 9>> >>

\* the 32-byte name field that holds the whole name, zero-padded
WholeName(name) == [bytes |-> name, zeros |-> 32 - Len(name)]

\* the 32-byte name field that holds the first 32 bytes of the name,
\* zero-padded when the name is shorter
First32Bytes(name) ==
    IF Len(name) <= 32 THEN WholeName(name)
    ELSE [bytes |-> SubSeq(name, 1, 32), zeros |-> 0]

StubOps == {"SetProperty", "GetPropBlob", "SetGamma", "Cursor", "Cursor2"}

\* a step of a stub, of SetCrtc or of DirtyFb leaves the registry, the
\* handle tables and counters, the offset table and the client-cap flags
\* alone; and the stub answers as given: GetPropBlob and SetGamma with
\* success, Cursor and Cursor2 with the not-supported-hardware error,
\* SetProperty with set_property_errno
StubsAnswer(set_property_errno) ==
    (ret'.op \in StubOps \cup {"SetCrtc", "DirtyFb"} /\ ret' # ret)
      => /\ UNCHANGED <<regVars, gemVars, fileVars>>
         /\ ret'.op \in {"GetPropBlob", "SetGamma"} => ret'.errno = OK
         /\ ret'.op \in {"Cursor", "Cursor2"} => ret'.errno = ENXIO
         /\ ret'.op = "SetProperty" => ret'.errno = set_property_errno

\* C27 (as the specification states it): SetProperty, GetPropBlob and
\* SetGamma return success for every input, Cursor and Cursor2 fail with
\* the not-supported-hardware error, and none of them, nor SetCrtc or
\* DirtyFB, changes the registry, the session's handle table, the offset
\* table or the session's client-cap flags.
C27_StubsAlwaysAnswer == [][StubsAnswer(OK)]_vars

\* C27 (as the code has it): the same, except that SetProperty returns
\* success on a device with MODESET and Unsupported on a device without.
C27_StubsAnswerGated ==
    [][StubsAnswer(IF MODESET \in driver_features THEN OK ELSE EOPNOTSUPP)]_vars

\* SetProperty has been accepted in a session that holds a buffer with an
\* offset and a framebuffer and has set a client cap
C27_Witness ==
    /\ ret.op = "SetProperty" /\ ret.errno = OK
    /\ framebuffers # Empty /\ offsets # Empty
    /\ gem_table[1] # Empty /\ caps[1].universal_planes

(***************************************************************************)
(* Properties of the sessions of one device.                               *)
(***************************************************************************)
\* the state a DrmFile owns
SessionState(t) ==
    [gem_table |-> gem_table[t], next_handle |-> next_handle[t], caps |-> caps[t]]

\* C28: a call on one session leaves the handle table, the handle counter
\* and the client-cap flags of every other session as they were; a session
\* starts with all six flags false, an empty handle table and the handle
\* counter at 1; and MapDumb, AddFB and DestroyDumb resolve a handle in the
\* table of the calling session only: they go through only for a handle
\* that was issued to the calling session, whatever the other sessions hold.
C28_SessionsIsolated ==
    [][/\ \A t \in opened :
            (ret'.s # t \/ ret' = ret) => SessionState(t)' = SessionState(t)
       /\ \A t \in opened' \ opened :
            SessionState(t)' = [gem_table |-> Empty, next_handle |-> 1,
                                caps |-> [c \in DOMAIN NoCaps |-> FALSE]]
       /\ (ret' # ret /\ ret'.op \in {"MapDumb", "AddFB", "DestroyDumb"}) =>
            (ret'.errno = OK <=> ret'.arg \in DOMAIN gem_table[ret'.s])]_vars

\* MapDumb in session 2 did not find handle 1, which session 1 holds and
\* session 2 was never issued; the two sessions differ in their flags
C28_Witness ==
    /\ ret.op = "MapDumb" /\ ret.s = 2 /\ ret.errno = ENOENT /\ ret.arg = 1
    /\ 1 \in DOMAIN gem_table[1]
    /\ next_handle[2] = 1 /\ caps[1] # caps[2]

(***************************************************************************)
(* Properties of the locking.                                              *)
(***************************************************************************)
\* the locks a thread holds
HeldBy(t) == {l \in DOMAIN lock : lock[l] = t}

\* the thread is inside a handler and its next event is ev on lock l
NextEvent(t, ev, l) ==
    /\ pc[t] # "idle" /\ got[t].todo # << >>
    /\ Head(got[t].todo) = <<ev, l>>

\* C29: no thread holds the registry lock together with the lock of a
\* handle table; no thread asks for the registry lock while it holds it;
\* and when AddFB asks for the registry lock it holds no handle-table lock.
C29_LocksNeverNested ==
    \A t \in TwoThreads :
        /\ ~(Registry \in HeldBy(t) /\ HeldBy(t) \ {Registry} # {})
        /\ NextEvent(t, "acq", Registry) => Registry \notin HeldBy(t)
        /\ (pc[t] = "AddFB" /\ NextEvent(t, "acq", Registry)) => HeldBy(t) = {}

\* AddFB in one thread is about to take the registry lock, having looked
\* its handle up, while the other thread holds the same handle-table lock
C29_Witness ==
    /\ pc[1] = "AddFB" /\ NextEvent(1, "acq", Registry)
    /\ pc[2] # "idle" /\ HeldBy(2) # {} /\ Registry \notin HeldBy(2)

\* the thread has accessed the registry in this call and will access it again
BetweenRegistryAccesses(t) ==
    /\ pc[t] # "idle"
    /\ got[t].used
    /\ \E i \in DOMAIN got[t].todo : got[t].todo[i] = <<"use", Registry>>

\* C30: an operation that touches the registry holds the registry lock
\* without interruption from its first access to its last, the loop of a
\* Fill included, so that a concurrent AddFB or RmFB cannot come between
\* the counts an operation checks and the ids it writes.
C30_RegistryLockHeldThroughout ==
    \A t \in TwoThreads : BetweenRegistryAccesses(t) => lock[Registry] = t

(***************************************************************************)
(* Properties of concurrent calls on one open file.                        *)
(***************************************************************************)
\* the threads whose CreateDumb returned Ok, and those inside the handler
Returned == {t \in Threads : pc[t] = "created"}
InCreate == {t \in Threads : pc[t] \in {"create_allocated", "create_numbered"}}

\* C31: the handles concurrent CreateDumb calls return on one open file are
\* pairwise distinct, and once no call is in progress every returned handle
\* maps in the table of the file to the buffer its own call created.
C31_ConcurrentCreatesDistinct ==
    /\ \A t1, t2 \in Returned : t1 # t2 => got[t1][1] # got[t2][1]
    /\ InCreate = {} =>
           \A t \in Returned : lookup_gem(1, got[t][1]) = {got[t][2]}

\* two calls have returned; the one that allocated its buffer first was
\* given the later handle
C31_Witness ==
    /\ InCreate = {}
    /\ \E t1, t2 \in Returned :
           /\ got[t1][2] < got[t2][2] /\ got[t1][1] > got[t2][1]
           /\ lookup_gem(1, got[t1][1]) = {got[t1][2]}

\* C32: under fair scheduling every call that has entered the dispatcher
\* returns, whatever the other thread does; a call waits only at the
\* acquisition of a lock, and no two calls wait for each other for ever.
C32_EveryCallReturns ==
    \A t \in TwoThreads : (pc[t] # "idle") ~> (pc[t] = "idle")

\* a call waits for the registry lock that the call of the other thread
\* holds
C32_Witness ==
    /\ NextEvent(1, "acq", Registry)
    /\ lock[Registry] = 2 /\ pc[2] = "GetResources"

(***************************************************************************)
(* Properties of the bring-up.                                             *)
(***************************************************************************)
\* init_standard_properties has been called: the positions of the two
\* bring-up sequences that lie behind the call
PropsInvoked ==
    bringup \in {"props", "plane", "crtc", "encoder", "connector", "registered",
                 "register_failed", "sysfb_device"}

\* C33: in the bring-up of every device init_standard_properties is called
\* once, and at the time of the call no plane, CRTC, encoder or connector
\* has been created in the registry.
C33_StandardPropertiesFirst ==
    [][ /\ PropsInvoked => PropsInvoked'
        /\ (~PropsInvoked /\ PropsInvoked') =>
               (planes = Empty /\ crtcs = Empty /\ encoders = Empty
                /\ connectors = Empty)
        /\ (~PropsInvoked') =>
               (planes' = Empty /\ crtcs' = Empty /\ encoders' = Empty
                /\ connectors' = Empty) ]_vars

\* the types of the minors registered for the device
MinorTypes == {m.type_ : m \in minors}

\* C34: a minor is registered, and a file opened, only when the plane, the
\* CRTC, the encoder and the connector exist in the registry.  A device
\* with COMPUTE_ACCEL has no minor but an Accel one; any other device has
\* no Accel minor, a Render minor only with RENDER, and, once
\* drm_dev_register has returned Ok, a Primary minor and a Render minor
\* exactly when it advertises RENDER.
C34_MinorsAfterObjects ==
    /\ opened # {} => minors # {}
    /\ minors # {} =>
           /\ planes # Empty /\ crtcs # Empty
           /\ encoders # Empty /\ connectors # Empty
    /\ \A m \in minors : m.index = 0
    /\ IF COMPUTE_ACCEL \in driver_features
       THEN /\ MinorTypes \subseteq {"Accel"}
            /\ Registered => MinorTypes = {"Accel"}
       ELSE /\ MinorTypes \subseteq {"Primary", "Render"}
            /\ "Render" \in MinorTypes => RENDER \in driver_features
            /\ Registered =>
                   /\ "Primary" \in MinorTypes
                   /\ "Render" \in MinorTypes <=> RENDER \in driver_features

\* a device with RENDER and without COMPUTE_ACCEL has been registered with
\* its two minors and a file has been opened
C34_Witness ==
    /\ driver_features = {MODESET, RENDER}
    /\ Registered /\ MinorTypes = {"Primary", "Render"}
    /\ opened = {1}
    /\ Cardinality(DOMAIN objects) = 4

(***************************************************************************)
(* Properties of the object table and of the identifiers.                  *)
(***************************************************************************)
\* the ids of the five typed tables
TypedIds ==
    DOMAIN planes \cup DOMAIN crtcs \cup DOMAIN encoders
        \cup DOMAIN connectors \cup DOMAIN framebuffers

\* C35: the unified object table holds exactly the ids of the plane, CRTC,
\* encoder, connector and framebuffer tables; in particular get_object finds
\* nothing under the id of a framebuffer that remove_framebuffer has removed.
C35_ObjectTableIsUnionOfTables == DOMAIN objects = TypedIds

\* C38: no plane, CRTC, encoder, connector or framebuffer has object id 0,
\* so that a framebuffer id of 0 names no object of the registry.
C38_NoObjectHasIdZero == 0 \notin TypedIds \cup DOMAIN objects

(***************************************************************************)
(* Properties of the client capabilities of a session.                     *)
(***************************************************************************)
\* the session has atomic set and universal_planes clear
AtomicWithoutUniversal(f) == f.atomic /\ ~f.universal_planes

\* C36 (as the specification states it): in every state of a session,
\* atomic = true implies universal_planes = true.
C36_AtomicImpliesUniversal ==
    \A s \in opened : ~AtomicWithoutUniversal(caps[s])

\* C36 (as the code has it): a successful SetClientCap(Atomic, v >= 1)
\* leaves atomic and universal_planes true, and a session comes to have
\* atomic without universal_planes by one step only, a successful
\* SetClientCap(UniversalPlane, 0) made while atomic is set.
C36_UniversalClearedOnlyOnRequest ==
    [][\A s \in Sessions :
         /\ \A v \in {1, 2} :
              (SetClientCapStep(s, "Atomic", v) /\ ret'.errno = OK)
                => caps'[s].atomic /\ caps'[s].universal_planes
         /\ (AtomicWithoutUniversal(caps'[s]) /\ ~AtomicWithoutUniversal(caps[s]))
              => /\ SetClientCapStep(s, "UniversalPlane", 0)
                 /\ ret'.errno = OK
                 /\ caps[s].atomic /\ caps[s].universal_planes]_vars

\* SetClientCap(UniversalPlane, 0) has succeeded in a session that had
\* enabled atomic
C36_Witness ==
    /\ ret.op = "SetClientCap" /\ ret.errno = OK
    /\ ret.arg = [capability |-> "UniversalPlane", value |-> 0]
    /\ AtomicWithoutUniversal(caps[ret.s])

\* the flag a capability names
FlagOf(cap) ==
    CASE cap = "Stereo3D" -> "stereo_allowed"
      [] cap = "UniversalPlane" -> "universal_planes"
      [] cap = "Atomic" -> "atomic"
      [] cap = "AspectRatio" -> "aspect_ratio_allowed"
      [] cap = "WritebackConnectors" -> "writeback_connectors"
      [] cap = "CursorPlaneHostport" -> "supports_virtualized_cursor_plane"

\* the flags a successful SetClientCap(cap, v) may change
MayChange(cap, v) ==
    {FlagOf(cap)}
      \cup (IF cap = "Atomic" /\ v >= 1 THEN {"universal_planes"} ELSE {})
      \cup (IF cap = "Atomic" /\ v = 2 THEN {"aspect_ratio_allowed"} ELSE {})

\* C37: a successful SetClientCap changes no flag of the session but the one
\* the capability names, except that Atomic with a value of 1 or 2 also sets
\* universal_planes and Atomic with the value 2 also sets
\* aspect_ratio_allowed; Atomic 1 leaves aspect_ratio_allowed, and Atomic 0
\* leaves universal_planes and aspect_ratio_allowed, as they were.
C37_OnlyNamedFlagChanges ==
    [][\A s \in Sessions, cap \in ClientCaps, v \in ClientCapValues :
         (SetClientCapStep(s, cap, v) /\ ret'.errno = OK)
           => /\ \A f \in DOMAIN NoCaps \ MayChange(cap, v) :
                    caps'[s][f] = caps[s][f]
              /\ \A t \in Sessions \ {s} : caps'[t] = caps[t]]_vars

(***************************************************************************)
(* Properties of the buffers behind framebuffers and of concurrent         *)
(* destruction.                                                            *)
(***************************************************************************)
\* C39: every framebuffer in the registry wraps a buffer whose backend has
\* not been released, whatever CreateDumb, AddFB, DestroyDumb and RmFB calls
\* were made.
C39_FramebuffersWrapLiveBuffers ==
    \A id \in DOMAIN framebuffers : ~gems[framebuffers[id].gem_obj].released

\* the threads inside DestroyDumb, past remove_gem
InDestroy == {t \in Threads : pc[t] \in {"destroy_removed", "destroy_released"}}

C4_PitchIsWidthTimesBppOverEight ==
    (ret.op = "CreateDumb" /\ ret.errno = OK)
      => LET d == ret.arg
             g == gems[gem_table[ret.s][ret.out.handle]]
         IN  /\ ret.out.pitch = (d.width * d.bpp) \div 8
             /\ ret.out.size = ret.out.pitch * d.height
             /\ g.size = ret.out.size
             /\ g.pitch = ret.out.pitch

\* C8 (as the specification states it): on a device without MODESET each
\* of the sixteen mode-setting operations fails with Unsupported, and the
\* registry, the handle tables and the offset table are as bring-up and
\* open left them.
C8_GatedOpsUnsupported ==
    (MODESET \notin driver_features /\ ret.op \in ModesetOps)
      => /\ ret.errno = EOPNOTSUPP
         /\ framebuffers = Empty /\ offsets = Empty /\ gems = << >>
         /\ \A s \in Sessions : gem_table[s] = Empty /\ next_handle[s] = 1
         /\ DOMAIN objects =
              DOMAIN planes \cup DOMAIN crtcs \cup DOMAIN encoders \cup DOMAIN connectors

====
